---- MODULE Spec2Model ----
(***************************************************************************)
(* Model of the rollup block revert tool (core/bin/block_revert): main,    *)
(* get_blocks, revert_blocks_on_contract, send_raw_tx_and_wait_confirmation *)
(* and revert_blocks_in_storage, with the database and the L1 node as the   *)
(* environment; and of the data restore driver (core/bin/data_restore):     *)
(* set_genesis_state, load_state_from_storage and run_state_update with    *)
(* the storage interactor, the L1 events and the termination of the        *)
(* process as the environment; of get_last_quote and keep_price_updated of  *)
(* the fee ticker (core/bin/zksync_api) with its price cache, the stored    *)
(* prices and the price API; and of TokenLike::is_rbtc (core/lib/types).    *)
(***************************************************************************)
EXTENDS Integers, Naturals, Sequences, FiniteSets, TLC

\* ------------------------------------------------------------------ bounds

\* Largest value of the 32-bit unsigned block number type, scaled down: the
\* arithmetic of main and get_blocks is done modulo U32_MAX + 1.
U32_MAX == 3

\* confirmation_timeout, in units of the 100 ms poll interval, scaled down.
ConfirmationTimeout == 2

\* Longest time one turn of the receipt loop may take, in poll intervals.
MaxPollDelay == 2

\* Number of rollup blocks the L1 contract holds.
MaxBlock == 3

\* Largest number of verified and committed block events the events state
\* holds at once.
MaxEvents == 2

\* Largest number of times the driver process is terminated and restarted.
MaxCrashes == 2

\* Highest L1 block number the genesis transaction can be mined in.
MaxEthBlock == 2

\* Number of L1 addresses a genesis fee account can be configured with.
MaxAddress == 3

\* Largest nonce of the configured genesis fee account.
MaxNonce == 1

\* Largest USD price a cached or stored token price has.
MaxPrice == 2

\* Largest number of characters of a token symbol passed to is_rbtc.
MaxSymbolLen == 5

\* Largest token id and largest L1 address passed to is_rbtc.
MaxTokenId == 2

\* ------------------------------------------------------- program constants

BASE_GAS == 200000
GAS_PER_BLOCK == 15000
RECEIPT_SUCCESS == 1

MSG_VERIFIED == "Some blocks to revert are already verified"
MSG_SIGN == "Revert blocks send err"
MSG_SEND == "Failed to send raw tx"
MSG_RECEIPT == "Failed to get receipt from eth node"
MSG_TIMEOUT == "Operation timeout"
MSG_NONCE == "Rootstock tx has been sent but updating operator nonce in storage has failed. You need to update it manually"
MSG_TX_FAILED == "Tx to contract failed"
MSG_REASON_RPC == "failure_reason call failed"
MSG_NO_BLOCK == "No block in storage"
MSG_SUB_OVERFLOW == "attempt to subtract with overflow"
MSG_ADD_OVERFLOW == "attempt to add with overflow"
PRINT_CONTRACT == "Blocks were reverted on contract"
PRINT_STORAGE == "Blocks were reverted in storage"
MSG_DB == "database error"

\* ------------------------------------------------------------------- types

Command == {"All", "Contract", "Storage"}

BlockNumber == 0 .. U32_MAX

\* Tables whose rows carry a block number and are cut at last_block.
BlockKeyedTables ==
    { "committed_nonce", "blocks", "account_tree_cache",
      "account_balance_updates", "account_creates", "account_pubkey_updates",
      "mint_nft_updates", "aggregate_operations", "eth_aggregated_ops_binding",
      "block_witness", "proofs", "aggregated_proofs", "prover_job_queue" }

\* Tables named in the progress messages of revert_blocks_in_storage.
Tables ==
    BlockKeyedTables \cup
    { "executed_transactions", "mempool_txs", "pending_block",
      "eth_unprocessed_aggregated_ops" }

NoTransaction == [open |-> FALSE]

NoTx == [status |-> "none"]

NoReceipt == [status |-> -1]

NoSignedTx == [signed |-> FALSE]

NoReason == "none"

\* Failure reasons the contract can give for a failed revertBlocks call.
FailureReasons == {"reason_a", "reason_b"}

VARIABLES
    command,              \* opt.command
    last_correct_block,   \* opt.last_correct_block
    overflow_checks,      \* build profile: TRUE panics on u32 overflow, FALSE wraps
    storage,              \* committed database: [tables, nonce, last_commited, last_verified]
    storage0,             \* the database as it was when the tool started
    transaction,          \* open database transaction (working copy) or NoTransaction
    onchain_nonce,        \* operator account nonce on L1
    l1_tx,                \* the revertBlocks transaction as the L1 node knows it
    pc,                   \* position of main
    last_commited_block,  \* local of main
    last_verified_block,  \* local of main
    blocks_to_revert,     \* local of main
    blocks,               \* Vec<Block> returned by get_blocks
    signed_tx,            \* result of sign_prepared_tx
    receipt,              \* receipt returned by send_raw_tx_and_wait_confirmation
    elapsed,              \* start.elapsed() in poll intervals
    ticks,                \* number of poller.tick() calls made, counted up to 2
    receipt_read,         \* whether tx_receipt was ever called
    step,                 \* next statement of revert_blocks_in_storage
    exit_code,            \* "running", "ok", "error" or "panic"
    err,                  \* message the run ended with
    reason,               \* failure reason carried by the error, when any
    printed               \* progress messages printed on success of a phase

\* State of the data restore driver, its database and the L1 chain it reads.
VARIABLES
    finite_mode,          \* DataRestoreDriver.finite_mode
    final_hash,           \* DataRestoreDriver.final_hash, NoHash when not set
    tree_state,           \* DataRestoreDriver.tree_state
    events_state,         \* DataRestoreDriver.events_state
    last_priority_op_serial_id, \* DataRestoreDriver.last_priority_op_serial_id
    new_ops_blocks,       \* local of run_state_update / load_state_from_storage
    final_hash_was_found, \* local of run_state_update
    is_cached,            \* local of load_state_from_storage
    driver_pc,            \* position of the driver process
    database,             \* committed data restore tables
    db_transaction,       \* open transaction (working copy) or NoTransaction
    total_verified_blocks, \* number of verified blocks on the L1 contract
    priority_op_data,     \* events_state.priority_op_data, by serial id
    priority_requests,    \* serial ids of the NewPriorityRequest logs on L1
    contract_versions,    \* contract version the decoder gives each block
    writes,               \* storage calls made since the iteration began
    crashes,              \* number of times the process was terminated
    before_crash          \* driver state when the process was last terminated

\* Arguments and locals of set_genesis_state.
VARIABLES
    genesis_eth_block_number, \* argument of set_genesis_state
    genesis_fee_account,  \* argument of set_genesis_state
    account_updates,      \* local of set_genesis_state
    account_map,          \* local of set_genesis_state
    tree_accounts         \* account map of DataRestoreDriver.tree_state

\* State of the fee ticker: get_last_quote, its caller and its stores.
VARIABLES
    token_request,        \* argument `token` of get_last_quote
    token,                \* local `token` of get_last_quote, once resolved
    price_cache,          \* price cache read by get_stored_value
    historical_price,     \* stored historical ticker prices
    quote,                \* Result returned by get_last_quote
    consulted,            \* price sources get_last_quote has read
    ticker_pc             \* position of get_last_quote

\* The task keep_price_updated of the fee ticker.
VARIABLES
    tokens,               \* Vec<Token> got from get_all_tokens in this round
    listed,               \* result of get_all_tokens: "none", "Ok" or "Err"
    updated,              \* update_price calls of this round, in order
    keeper_pc             \* position of keep_price_updated

\* A call of TokenLike::is_rbtc.
VARIABLES
    token_like,           \* self
    is_rbtc_result,       \* returned bool
    token_pc              \* position of the call

revertVars ==
    << command, last_correct_block, overflow_checks, storage, storage0,
       transaction, onchain_nonce, l1_tx, pc, last_commited_block,
       last_verified_block, blocks_to_revert, blocks, signed_tx, receipt,
       elapsed, ticks, receipt_read, step, exit_code, err, reason, printed >>

driverVars ==
    << finite_mode, final_hash, tree_state, events_state,
       last_priority_op_serial_id, new_ops_blocks, final_hash_was_found,
       is_cached, driver_pc, database, db_transaction, total_verified_blocks,
       priority_op_data, priority_requests, contract_versions, writes,
       crashes, before_crash >>

genesisVars ==
    << genesis_eth_block_number, genesis_fee_account, account_updates,
       account_map, tree_accounts >>

\* What the block reverter, and what the loop of the data restore driver,
\* leave alone.
tickerVars ==
    << token_request, token, price_cache, historical_price, quote,
       consulted, ticker_pc >>

tokenVars == << token_like, is_rbtc_result, token_pc >>

keeperVars == << tokens, listed, updated, keeper_pc >>

\* What the block reverter, and what the loop of the data restore driver,
\* leave alone.
nonRevertVars ==
    << driverVars, genesisVars, tickerVars, tokenVars, keeperVars >>

nonDriverVars ==
    << revertVars, genesisVars, tickerVars, tokenVars, keeperVars >>

vars ==
    << revertVars, driverVars, genesisVars, tickerVars, tokenVars,
       keeperVars >>

\* ----------------------------------------------------------------- helpers

Max(S) == CHOOSE x \in S : \A y \in S : y <= x

Min2(a, b) == IF a <= b THEN a ELSE b

\* u32 subtraction and addition as a release build computes them.
WrappingSub(a, b) == (a - b + (U32_MAX + 1)) % (U32_MAX + 1)

WrappingAdd(a, b) == (a + b) % (U32_MAX + 1)

SubOverflows(a, b) == b > a

AddOverflows(a, b) == a + b > U32_MAX

\* (lo ..= hi).rev() as a sequence
RevRange(lo, hi) ==
    IF lo > hi THEN << >> ELSE [i \in 1 .. (hi - lo + 1) |-> hi - i + 1]

\* The row of the blocks table for block n, as get_block returns it.
Block(n) == [block_number |-> n, new_root_hash |-> << "root", n >>]

\* The descriptor of a stored block passed to the contract.
stored_block_info(b) == << b.block_number, b.new_root_hash >>

\* ------------------------------------------------- data restore: types

\* enum StorageUpdateState
StorageUpdateState == {"None", "Events", "Operations"}

\* final_hash: None
NoHash == << "none", << >> >>

\* Rollup blocks committed and verified on the L1 contract.
ChainBlocks == 1 .. MaxBlock

\* Hash of the L1 transaction that committed rollup block n: two consecutive
\* blocks share one aggregated commit.
TxHash(n) == (n + 1) \div 2

\* The verified and committed event of rollup block n.
BlockEvent(n) == [block_num |-> n, transaction_hash |-> TxHash(n)]

\* Number of priority operations rollup block n holds on L1.
PriorityOpsIn(n) == n % 2

\* Serial id of the first priority operation of rollup block n on L1.
RECURSIVE FirstSerialId(_)
FirstSerialId(n) ==
    IF n <= 1 THEN 0 ELSE FirstSerialId(n - 1) + PriorityOpsIn(n - 1)

\* Number of chunks the operations of rollup block n take.
ChunksIn(n) == IF n = 1 THEN 1 ELSE 2

\* Option<ZkSyncContractVersion>::None
NoVersion == 0

\* The ops block decoded from the commit transaction of rollup block n.
RollupOpsBlock(n) ==
    [block_num |-> n, priority_ops |-> PriorityOpsIn(n),
     first_serial_id |-> FirstSerialId(n),
     contract_version |-> contract_versions[n], chunks |-> ChunksIn(n)]

\* TreeState::new(): the empty tree at block 0. `applied` is the sequence of
\* blocks whose operations produced the account map.
EmptyTree == [block_number |-> 0, applied |-> << >>]

\* EventsState::default()
EmptyEvents == << >>

\* Sequences of block events sorted by block number, as
\* get_only_verified_committed_events returns them: duplicates and gaps can
\* occur.
EventSeqs(top) ==
    { s \in UNION { [1 .. k -> 1 .. top] : k \in 0 .. MaxEvents } :
        \A i \in 1 .. Len(s) - 1 : s[i] <= s[i + 1] }

\* The tables the loop of the driver reads and writes, as they are right
\* after set_genesis_state: its save_events_state left the checkpoint at
\* Events, with no event stored.
GenesisDatabase ==
    [storage_state |-> "Events", events |-> EmptyEvents, rollup_ops |-> << >>,
     blocks |-> {}, tree_cache |-> {}, eth_state |-> 0]

NoCrash == [at |-> "none", ok |-> TRUE, tree |-> EmptyTree]

\* The driver process does not exist.
DriverIdle ==
    /\ finite_mode = FALSE
    /\ final_hash = NoHash
    /\ tree_state = EmptyTree
    /\ events_state = EmptyEvents
    /\ last_priority_op_serial_id = 0
    /\ new_ops_blocks = << >>
    /\ final_hash_was_found = FALSE
    /\ is_cached = FALSE
    /\ driver_pc = "idle"
    /\ database = GenesisDatabase
    /\ db_transaction = NoTransaction
    /\ total_verified_blocks = 0
    /\ priority_op_data = {}
    /\ priority_requests = {}
    /\ contract_versions = [n \in ChainBlocks |-> 3]
    /\ writes = << >>
    /\ crashes = 0
    /\ before_crash = NoCrash

\* ----------------------------------------------- data restore: genesis

\* zksync_crypto::params: the reserved account of the NFT custody, its
\* address (all ones, shortened here), the token whose balance on that
\* account counts the minted NFTs, and the first NFT token id.
NFT_STORAGE_ACCOUNT_ID == 16777215
NFT_STORAGE_ACCOUNT_ADDRESS == 1048575
NFT_TOKEN_ID == 2147483647
MIN_NFT_TOKEN_ID == 65536

\* Address::zero()
ZERO_ADDRESS == 0

\* AccountMap::default(), and the balances of a new account: the map
\* without keys.
EmptyMap == [k \in {} |-> 0]

\* The account get_genesis_account reads from the genesis transaction.
GenesisAccounts ==
    [address : 1 .. MaxAddress, nonce : 0 .. MaxNonce, balances : {EmptyMap}]

NoAccount == [address |-> ZERO_ADDRESS, nonce |-> 0, balances |-> EmptyMap]

\* The database before set_genesis_state: every table is empty.
EmptyDatabase ==
    [storage_state |-> "None", events |-> EmptyEvents, rollup_ops |-> << >>,
     blocks |-> {}, tree_cache |-> {}, eth_state |-> 0,
     last_watched_eth_block |-> 0, tokens |-> {}, account_updates |-> << >>]

\* set_genesis_state is not running.
GenesisIdle ==
    /\ genesis_eth_block_number = 0
    /\ genesis_fee_account = NoAccount
    /\ account_updates = << >>
    /\ account_map = EmptyMap
    /\ tree_accounts = EmptyMap

\* ------------------------------------------------- fee ticker and tokens

\* USD prices of a token; the time of the last update is left out.
Prices == 0 .. MaxPrice

\* Option<TokenPrice>::None
NoPrice == MaxPrice + 1

\* Token::default()
NoToken ==
    [id |-> 0, address |-> ZERO_ADDRESS, symbol |-> "", decimals |-> 0,
     kind |-> "ERC20", is_nft |-> FALSE]

NoQuote == [ok |-> FALSE, error |-> "none"]

\* get_last_quote is not being called.
TickerIdle ==
    /\ token_request = [kind |-> "Id", value |-> 0]
    /\ token = NoToken
    /\ price_cache = [t \in {} |-> NoPrice]
    /\ historical_price = [t \in {} |-> NoPrice]
    /\ quote = NoQuote
    /\ consulted = {}
    /\ ticker_pc = "idle"

\* Characters of token symbols: the letters of RBTC in both cases, and a
\* character that is none of them.
Chars == {"r", "R", "b", "B", "t", "T", "c", "C", "x"}

\* is_rbtc is not being called.
TokenIdle ==
    /\ token_like = [kind |-> "Id", value |-> 0]
    /\ is_rbtc_result = FALSE
    /\ token_pc = "idle"

\* keep_price_updated is not running.
KeeperIdle ==
    /\ tokens = << >>
    /\ listed = "none"
    /\ updated = << >>
    /\ keeper_pc = "idle"

\* ------------------------------------------------------------------- Init

\* Every table has the rows of the stored blocks; the pending block is the one
\* after the last stored or committed block; the aggregated operations not yet
\* sent to L1 are those of the blocks above the last confirmed commit.
InitTables(S, committed) ==
    [t \in Tables |->
        IF t = "mempool_txs" THEN {}
        ELSE IF t = "pending_block" THEN {Max(S \cup {committed}) + 1}
        ELSE IF t = "eth_unprocessed_aggregated_ops"
             THEN {n \in S : n > committed}
        ELSE S]

Init ==
    /\ command \in Command
    /\ last_correct_block \in BlockNumber
    /\ overflow_checks \in BOOLEAN
    /\ \E S \in SUBSET BlockNumber, c \in BlockNumber, n \in 0 .. 1 :
         \E v \in 0 .. c :
            storage = [tables |-> InitTables(S, c), nonce |-> n,
                       last_committed |-> c, last_verified |-> v]
    /\ storage0 = storage
    /\ transaction = NoTransaction
    /\ onchain_nonce = 1
    /\ l1_tx = NoTx
    /\ pc = "main"
    /\ last_commited_block = 0
    /\ last_verified_block = 0
    /\ blocks_to_revert = 0
    /\ blocks = << >>
    /\ signed_tx = NoSignedTx
    /\ receipt = NoReceipt
    /\ elapsed = 0
    /\ ticks = 0
    /\ receipt_read = FALSE
    /\ step = 0
    /\ exit_code = "running"
    /\ err = "none"
    /\ reason = NoReason
    /\ printed = {}
    /\ DriverIdle
    /\ GenesisIdle
    /\ TickerIdle
    /\ TokenIdle
    /\ KeeperIdle

\* The process ends: Ok(()), Err(msg) or a panic.
Exit(code, msg) ==
    /\ pc' = "exit"
    /\ exit_code' = code
    /\ err' = msg

\* ------------------------------------------------------------------- main

\* last_block of main: the block number handed to revert_blocks_in_storage.
last_block == last_correct_block

\* The condition of the ensure! of main.
NotVerifiedMutant(verified, correct) == TRUE

NotVerified(verified, correct) == verified <= correct

\* The first call of the arm of the match that main takes.
FirstCallMutant(cmd) == "start_transaction"

FirstCall(cmd) == IF cmd = "Storage" THEN "start_transaction" ELSE "get_blocks"

\* main, up to the match on opt.command.
Main ==
    /\ UNCHANGED nonRevertVars
    /\ pc = "main"
    /\ \/ /\ Exit("error", MSG_DB)
          /\ UNCHANGED << last_commited_block, last_verified_block,
                          blocks_to_revert >>
       \/ /\ last_commited_block' = storage.last_committed
          /\ last_verified_block' = storage.last_verified
          /\ IF ~NotVerified(storage.last_verified, last_correct_block)
             THEN /\ Exit("error", MSG_VERIFIED)
                  /\ UNCHANGED blocks_to_revert
             ELSE IF /\ SubOverflows(storage.last_committed, last_correct_block)
                     /\ overflow_checks
             THEN /\ Exit("panic", MSG_SUB_OVERFLOW)
                  /\ UNCHANGED blocks_to_revert
             ELSE /\ blocks_to_revert' =
                        WrappingSub(storage.last_committed, last_correct_block)
                  /\ pc' = FirstCall(command)
                  /\ UNCHANGED << exit_code, err >>
    /\ UNCHANGED << command, last_correct_block, overflow_checks, storage,
                    storage0, transaction, onchain_nonce, l1_tx, blocks,
                    signed_tx, receipt, elapsed, ticks, receipt_read, step,
                    reason, printed >>

get_blocksMutant(last_commited, to_revert, stored) ==
    LET range_to_revert ==
            RevRange(WrappingAdd(WrappingSub(last_commited, to_revert), 1),
                     last_commited)
        found == SelectSeq(range_to_revert, LAMBDA n : n \in stored)
    IN  [kind |-> "ok", msg |-> "none",
         blocks |-> [i \in 1 .. Len(found) |-> Block(found[i])]]

\* get_blocks: the outcome for the given arguments and blocks table.
get_blocks(last_commited, to_revert, stored) ==
    IF SubOverflows(last_commited, to_revert) /\ overflow_checks
    THEN [kind |-> "panic", msg |-> MSG_SUB_OVERFLOW, blocks |-> << >>]
    ELSE IF AddOverflows(WrappingSub(last_commited, to_revert), 1)
            /\ overflow_checks
    THEN [kind |-> "panic", msg |-> MSG_ADD_OVERFLOW, blocks |-> << >>]
    ELSE LET last_block_to_revert ==
                 WrappingAdd(WrappingSub(last_commited, to_revert), 1)
             range_to_revert == RevRange(last_block_to_revert, last_commited)
         IN  IF \E i \in 1 .. Len(range_to_revert) :
                    range_to_revert[i] \notin stored
             THEN [kind |-> "panic", msg |-> MSG_NO_BLOCK, blocks |-> << >>]
             ELSE [kind |-> "ok", msg |-> "none",
                   blocks |-> [i \in 1 .. Len(range_to_revert) |->
                                  Block(range_to_revert[i])]]

GetBlocks ==
    /\ UNCHANGED nonRevertVars
    /\ pc = "get_blocks"
    /\ \/ /\ Exit("error", MSG_DB)
          /\ UNCHANGED blocks
       \/ LET r == get_blocks(last_commited_block, blocks_to_revert,
                              storage.tables["blocks"])
          IN  IF r.kind = "ok"
              THEN /\ blocks' = r.blocks
                   /\ pc' = "sign_prepared_tx"
                   /\ UNCHANGED << exit_code, err >>
              ELSE /\ Exit(r.kind, r.msg)
                   /\ UNCHANGED blocks
    /\ UNCHANGED << command, last_correct_block, overflow_checks, storage,
                    storage0, transaction, onchain_nonce, l1_tx,
                    last_commited_block, last_verified_block,
                    blocks_to_revert, signed_tx, receipt, elapsed, ticks,
                    receipt_read, step, reason, printed >>

\* ------------------------------------------------ revert_blocks_on_contract

\* The argument array of revertBlocks built from blocks.
tx_arg(bs) == [i \in 1 .. Len(bs) |-> stored_block_info(bs[i])]

\* client.encode_tx_data("revertBlocks", tx_arg)
encode_tx_data(method, arg) == [method |-> method, arg |-> arg]

gas_limit(bs) == BASE_GAS + GAS_PER_BLOCK * Len(bs)

\* sign_prepared_tx with the gas option set to gas_limit.
SignPreparedTx ==
    /\ UNCHANGED nonRevertVars
    /\ pc = "sign_prepared_tx"
    /\ \/ /\ Exit("error", MSG_SIGN)
          /\ UNCHANGED signed_tx
       \/ /\ signed_tx' = [signed |-> TRUE,
                           data |-> encode_tx_data("revertBlocks", tx_arg(blocks)),
                           gas |-> gas_limit(blocks)]
          /\ pc' = "send_raw_tx"
          /\ UNCHANGED << exit_code, err >>
    /\ UNCHANGED << command, last_correct_block, overflow_checks, storage,
                    storage0, transaction, onchain_nonce, l1_tx,
                    last_commited_block, last_verified_block,
                    blocks_to_revert, blocks, receipt, elapsed, ticks,
                    receipt_read, step, reason, printed >>

\* send_raw_tx_and_wait_confirmation: client.send_raw_tx, then the start of
\* the interval and of the clock.
SendRawTx ==
    /\ UNCHANGED nonRevertVars
    /\ pc = "send_raw_tx"
    /\ \/ /\ Exit("error", MSG_SEND)
          /\ UNCHANGED l1_tx
       \/ /\ l1_tx' = [status |-> "pending", data |-> signed_tx.data,
                       gas |-> signed_tx.gas, reason |-> NoReason]
          /\ pc' = "tx_receipt"
          /\ UNCHANGED << exit_code, err >>
    /\ elapsed' = 0
    /\ ticks' = 0
    /\ UNCHANGED << command, last_correct_block, overflow_checks, storage,
                    storage0, transaction, onchain_nonce,
                    last_commited_block, last_verified_block,
                    blocks_to_revert, blocks, signed_tx, receipt,
                    receipt_read, step, reason, printed >>

\* The L1 network includes the pending transaction in a block: the operator's
\* account nonce is consumed and the call succeeds or reverts with a reason.
MineTx ==
    /\ UNCHANGED nonRevertVars
    /\ l1_tx.status = "pending"
    /\ \/ l1_tx' = [l1_tx EXCEPT !.status = "success"]
       \/ \E r \in FailureReasons :
             l1_tx' = [l1_tx EXCEPT !.status = "failed", !.reason = r]
    /\ onchain_nonce' = onchain_nonce + 1
    /\ UNCHANGED << command, last_correct_block, overflow_checks, storage,
                    storage0, transaction, pc, last_commited_block,
                    last_verified_block, blocks_to_revert, blocks, signed_tx,
                    receipt, elapsed, ticks, receipt_read, step, exit_code,
                    err, reason, printed >>

\* Least time one turn of the loop takes: the first tick of a tokio interval
\* completes at once, every later one a full period after the one before.
MinPollDelay == IF ticks <= 1 THEN 0 ELSE 1

\* start.elapsed() > confirmation_timeout
TimedOutMutant(e) == TRUE

TimedOut(e) == e > ConfirmationTimeout

\* One turn of the loop of send_raw_tx_and_wait_confirmation: tx_receipt, the
\* deadline test and poller.tick().
TxReceipt ==
    /\ UNCHANGED nonRevertVars
    /\ pc = "tx_receipt"
    /\ receipt_read' = TRUE
    /\ \E d \in MinPollDelay .. MaxPollDelay :
         \/ /\ Exit("error", MSG_RECEIPT)
            /\ elapsed' = 0
            /\ ticks' = 0
            /\ UNCHANGED receipt
         \/ /\ l1_tx.status \in {"success", "failed"}
            /\ receipt' = [status |-> IF l1_tx.status = "success"
                                      THEN RECEIPT_SUCCESS ELSE 0]
            /\ pc' = "get_next_nonce"
            /\ elapsed' = 0
            /\ ticks' = 0
            /\ UNCHANGED << exit_code, err >>
         \/ /\ TimedOut(elapsed + d)
            /\ Exit("error", MSG_TIMEOUT)
            /\ elapsed' = 0
            /\ ticks' = 0
            /\ UNCHANGED receipt
         \/ /\ ~TimedOut(elapsed + d)
            /\ elapsed' = elapsed + d
            /\ ticks' = Min2(ticks + 1, 2)
            /\ UNCHANGED << pc, exit_code, err, receipt >>
    /\ UNCHANGED << command, last_correct_block, overflow_checks, storage,
                    storage0, transaction, onchain_nonce, l1_tx,
                    last_commited_block, last_verified_block,
                    blocks_to_revert, blocks, signed_tx, step, reason,
                    printed >>

get_next_nonceMutant(st) == st

\* rootstock_schema().get_next_nonce(): returns the stored operator nonce and
\* stores its successor.
get_next_nonce(st) == [st EXCEPT !.nonce = st.nonce + 1]

GetNextNonce ==
    /\ UNCHANGED nonRevertVars
    /\ pc = "get_next_nonce"
    /\ \/ /\ Exit("panic", MSG_NONCE)
          /\ UNCHANGED storage
       \/ /\ storage' = get_next_nonce(storage)
          /\ pc' = "check_status"
          /\ UNCHANGED << exit_code, err >>
    /\ UNCHANGED << command, last_correct_block, overflow_checks, storage0,
                    transaction, onchain_nonce, l1_tx, last_commited_block,
                    last_verified_block, blocks_to_revert, blocks, signed_tx,
                    receipt, elapsed, ticks, receipt_read, step, reason,
                    printed >>

\* receipt.status != Some(U64::from(1))
ReceiptFailedMutant(r) == FALSE

ReceiptFailed(r) == r.status # RECEIPT_SUCCESS

\* What main does after revert_blocks_on_contract returned Ok(()).
AfterContractMutant(cmd) == "start_transaction"

AfterContract(cmd) == IF cmd = "All" THEN "start_transaction" ELSE "exit"

\* The test of the receipt status, the failure_reason call and the return of
\* revert_blocks_on_contract to main.
CheckStatus ==
    /\ UNCHANGED nonRevertVars
    /\ pc = "check_status"
    /\ IF ReceiptFailed(receipt)
       THEN /\ \/ /\ Exit("error", MSG_REASON_RPC)
                  /\ UNCHANGED reason
               \/ /\ Exit("error", MSG_TX_FAILED)
                  /\ reason' = l1_tx.reason
            /\ UNCHANGED printed
       ELSE /\ printed' = printed \cup {PRINT_CONTRACT}
            /\ IF AfterContract(command) = "exit"
               THEN Exit("ok", "none")
               ELSE /\ pc' = AfterContract(command)
                    /\ UNCHANGED << exit_code, err >>
            /\ UNCHANGED reason
    /\ UNCHANGED << command, last_correct_block, overflow_checks, storage,
                    storage0, transaction, onchain_nonce, l1_tx,
                    last_commited_block, last_verified_block,
                    blocks_to_revert, blocks, signed_tx, receipt, elapsed,
                    ticks, receipt_read, step >>

\* ------------------------------------------------- revert_blocks_in_storage

\* Rows of a block-keyed table that a removal with bound n keeps.
KeepUpTo(rows, n) == {b \in rows : b <= n}

\* remove_<table>(last_block): delete the rows of table t above n.
RemoveAbove(tx, t, n) ==
    [tx EXCEPT !.tables[t] = KeepUpTo(tx.tables[t], n)]

\* Delete every row of table t.
RemoveAll(tx, t) == [tx EXCEPT !.tables[t] = {}]

\* Executed transactions of the blocks above n go back to the mempool.
return_executed_txs_to_mempool(tx, n) ==
    [tx EXCEPT
       !.tables["mempool_txs"] =
           tx.tables["mempool_txs"] \cup
           {b \in tx.tables["executed_transactions"] : b > n},
       !.tables["executed_transactions"] =
           KeepUpTo(tx.tables["executed_transactions"], n)]

clear_current_nonce_table(tx, n) == RemoveAbove(tx, "committed_nonce", n)

remove_blocks(tx, n) == RemoveAbove(tx, "blocks", n)

remove_pending_block(tx) == RemoveAll(tx, "pending_block")

remove_new_account_tree_cache(tx, n) ==
    RemoveAbove(tx, "account_tree_cache", n)

remove_account_balance_updates(tx, n) ==
    RemoveAbove(tx, "account_balance_updates", n)

remove_account_creates(tx, n) == RemoveAbove(tx, "account_creates", n)

remove_account_pubkey_updates(tx, n) ==
    RemoveAbove(tx, "account_pubkey_updates", n)

remove_mint_nft_updates(tx, n) == RemoveAbove(tx, "mint_nft_updates", n)

remove_eth_unprocessed_aggregated_ops(tx) ==
    RemoveAll(tx, "eth_unprocessed_aggregated_ops")

remove_aggregate_operations_and_bindings(tx, n) ==
    RemoveAbove(RemoveAbove(tx, "aggregate_operations", n),
                "eth_aggregated_ops_binding", n)

remove_witnesses(tx, n) == RemoveAbove(tx, "block_witness", n)

remove_proofs(tx, n) == RemoveAbove(tx, "proofs", n)

remove_aggregated_proofs(tx, n) == RemoveAbove(tx, "aggregated_proofs", n)

remove_prover_jobs(tx, n) == RemoveAbove(tx, "prover_job_queue", n)

\* The stored nonce-tracking row is set to the operator's nonce on L1.
update_eth_parameters(tx, n) == [tx EXCEPT !.nonce = onchain_nonce]

\* Number of awaited schema calls between start_transaction and commit.
RevertSteps == 16

\* The i-th schema call of revert_blocks_in_storage applied to transaction tx.
RevertStep(i, tx, n) ==
    CASE i = 1 -> return_executed_txs_to_mempool(tx, n)
      [] i = 2 -> clear_current_nonce_table(tx, n)
      [] i = 3 -> remove_blocks(tx, n)
      [] i = 4 -> remove_pending_block(tx)
      [] i = 5 -> remove_new_account_tree_cache(tx, n)
      [] i = 6 -> remove_account_balance_updates(tx, n)
      [] i = 7 -> remove_account_creates(tx, n)
      [] i = 8 -> remove_account_pubkey_updates(tx, n)
      [] i = 9 -> remove_mint_nft_updates(tx, n)
      [] i = 10 -> remove_eth_unprocessed_aggregated_ops(tx)
      [] i = 11 -> remove_aggregate_operations_and_bindings(tx, n)
      [] i = 12 -> remove_witnesses(tx, n)
      [] i = 13 -> remove_proofs(tx, n)
      [] i = 14 -> remove_aggregated_proofs(tx, n)
      [] i = 15 -> remove_prover_jobs(tx, n)
      [] i = 16 -> update_eth_parameters(tx, n)

\* storage.start_transaction()
StartTransaction ==
    /\ UNCHANGED nonRevertVars
    /\ pc = "start_transaction"
    /\ \/ /\ Exit("error", MSG_DB)
          /\ UNCHANGED << transaction, step >>
       \/ /\ transaction' = [open |-> TRUE, tables |-> storage.tables,
                             nonce |-> storage.nonce]
          /\ step' = 1
          /\ pc' = "in_transaction"
          /\ UNCHANGED << exit_code, err >>
    /\ UNCHANGED << command, last_correct_block, overflow_checks, storage,
                    storage0, onchain_nonce, l1_tx, last_commited_block,
                    last_verified_block, blocks_to_revert, blocks, signed_tx,
                    receipt, elapsed, ticks, receipt_read, reason, printed >>

StorageAfterStepMutant(st, tx) ==
    [st EXCEPT !.tables = tx.tables, !.nonce = tx.nonce]

\* The committed database after a schema call made on `transaction`: every
\* call goes to the handle returned by start_transaction, none to `storage`.
StorageAfterStep(st, tx) == st

\* One awaited schema call inside the transaction; an error drops the
\* transaction, which rolls it back.
StorageStep ==
    /\ UNCHANGED nonRevertVars
    /\ pc = "in_transaction"
    /\ step <= RevertSteps
    /\ \/ /\ Exit("error", MSG_DB)
          /\ transaction' = NoTransaction
          /\ UNCHANGED << step, storage >>
       \/ /\ transaction' = RevertStep(step, transaction, last_block)
          /\ storage' = StorageAfterStep(storage, transaction')
          /\ step' = step + 1
          /\ UNCHANGED << pc, exit_code, err >>
    /\ UNCHANGED << command, last_correct_block, overflow_checks,
                    storage0, onchain_nonce, l1_tx, last_commited_block,
                    last_verified_block, blocks_to_revert, blocks, signed_tx,
                    receipt, elapsed, ticks, receipt_read, reason, printed >>

\* transaction.commit() and the return to main, which returns Ok(()).
Commit ==
    /\ UNCHANGED nonRevertVars
    /\ pc = "in_transaction"
    /\ step = RevertSteps + 1
    /\ transaction' = NoTransaction
    /\ \/ /\ Exit("error", MSG_DB)
          /\ UNCHANGED << storage, printed >>
       \/ /\ storage' = [storage EXCEPT !.tables = transaction.tables,
                                        !.nonce = transaction.nonce]
          /\ printed' = printed \cup {PRINT_STORAGE}
          /\ Exit("ok", "none")
    /\ UNCHANGED << command, last_correct_block, overflow_checks, storage0,
                    onchain_nonce, l1_tx, last_commited_block,
                    last_verified_block, blocks_to_revert, blocks, signed_tx,
                    receipt, elapsed, ticks, receipt_read, step, reason >>

\* ===================================================== data restore driver

\* ------------------------------------------------------------ tree state

\* TreeState::root_hash(): a digest of the account map, which is determined
\* by the sequence of blocks applied since genesis.
root_hash(tree) == << "root", tree.applied >>

\* Root hash of the rollup state after blocks 1 .. n were applied in order.
ChainRoot(n) == << "root", [i \in 1 .. n |-> i] >>

\* ZkSyncContractVersion::available_block_chunk_sizes: version 3 admits a
\* size that version 4 does not.
available_block_chunk_sizes(version) ==
    CASE version = 3 -> {1, 2}
      [] version = 4 -> {1}

PANIC_VERSION == "contract version must be set"
PANIC_TREE == "Updating tree state: cant update tree from operations"

\* TreeState::update_tree_states_from_ops_block: the chunks of the block
\* must be one of the admissible sizes and its priority operations must
\* continue the serial id sequence, otherwise Err. The tree moves to the
\* number of the applied block.
update_tree_states_from_ops_block(tree, op_block, chunk_sizes, serial_id) ==
    IF \/ op_block.chunks \notin chunk_sizes
       \/ op_block.priority_ops > 0 /\ op_block.first_serial_id # serial_id
    THEN [ok |-> FALSE, panic |-> PANIC_TREE, tree |-> tree,
          serial_id |-> serial_id]
    ELSE [ok |-> TRUE, panic |-> "none",
          tree |-> [block_number |-> op_block.block_num,
                    applied |-> Append(tree.applied, op_block.block_num)],
          serial_id |-> serial_id + op_block.priority_ops]

ChunkSizesForMutant(ops_blocks, i) == ops_blocks[1].contract_version

\* The contract version whose chunk sizes block i of the batch is applied
\* with: the version of the block itself.
ChunkSizesFor(ops_blocks, i) == ops_blocks[i].contract_version

\* The loop of update_tree_state over the ops blocks, from block i on: a
\* block without contract version panics, the driver threads its own
\* last_priority_op_serial_id through every block.
RECURSIVE ApplyOpsBlocks(_, _, _, _)
ApplyOpsBlocks(tree, serial_id, ops_blocks, i) ==
    IF i > Len(ops_blocks)
    THEN [ok |-> TRUE, panic |-> "none", tree |-> tree,
          serial_id |-> serial_id]
    ELSE IF ops_blocks[i].contract_version = NoVersion
    THEN [ok |-> FALSE, panic |-> PANIC_VERSION, tree |-> tree,
          serial_id |-> serial_id]
    ELSE LET r == update_tree_states_from_ops_block(
                      tree, ops_blocks[i],
                      available_block_chunk_sizes(
                          ChunkSizesFor(ops_blocks, i)),
                      serial_id)
         IN  IF r.ok
             THEN ApplyOpsBlocks(r.tree, r.serial_id, ops_blocks, i + 1)
             ELSE r

\* ---------------------------------------------------------- event scan

\* RollupOpsBlock::get_rollup_ops_blocks: the numbers of the blocks the
\* commit transaction of the event holds.
get_rollup_ops_blocks(event) ==
    {n \in ChainBlocks : TxHash(n) = event.transaction_hash}

NoTxHash == 0

\* The filter on the verified and committed events.
IsNewEvent(block_num, tree_block_number) == block_num > tree_block_number

AlreadyProcessedMutant(last_processed_block, block_num) == FALSE

\* The test that skips an event of the scan.
AlreadyProcessed(last_processed_block, block_num) ==
    last_processed_block >= block_num

InLastTxBlocksMutant(last_tx_blocks, block_num) == TRUE

\* `last_tx_blocks.remove(&event.block_num)` is Some: the cache of the last
\* fetched transaction holds the block of the event.
InLastTxBlocks(last_tx_blocks, block_num) == block_num \in last_tx_blocks

NeedsFetchMutant(last_event_tx_hash, tx_hash) == TRUE

\* The test that fetches the commit transaction of an event again: there is
\* no previous transaction hash or it differs from the hash of the event.
NeedsFetch(last_event_tx_hash, tx_hash) == last_event_tx_hash # tx_hash

\* The body of the for loop of get_new_operation_blocks_from_events for one
\* event, on the locals of the function; `fetched` records the calls of
\* RollupOpsBlock::get_rollup_ops_blocks.
ScanEvent(acc, event) ==
    IF AlreadyProcessed(acc.last_processed_block, event.block_num)
    THEN acc
    ELSE LET fetch == NeedsFetch(acc.last_event_tx_hash,
                                 event.transaction_hash)
             calls == IF fetch
                      THEN Append(acc.fetched, event.transaction_hash)
                      ELSE acc.fetched
             cache == IF fetch THEN get_rollup_ops_blocks(event)
                      ELSE acc.last_tx_blocks
             hash  == IF fetch THEN event.transaction_hash
                      ELSE acc.last_event_tx_hash
         IN  IF InLastTxBlocks(cache, event.block_num)
             THEN [blocks |-> Append(acc.blocks,
                                     RollupOpsBlock(event.block_num)),
                   last_event_tx_hash |-> hash,
                   last_tx_blocks |-> cache \ {event.block_num},
                   last_processed_block |-> event.block_num,
                   block_not_found |-> acc.block_not_found,
                   fetched |-> calls]
             ELSE [acc EXCEPT !.last_event_tx_hash = hash,
                              !.last_tx_blocks = cache,
                              !.block_not_found = TRUE,
                              !.fetched = calls]

RECURSIVE ScanEvents(_, _, _)
ScanEvents(acc, events, i) ==
    IF i > Len(events) \/ acc.block_not_found
    THEN acc
    ELSE ScanEvents(ScanEvent(acc, events[i]), events, i + 1)

\* get_new_operation_blocks_from_events: the locals after the loop.
get_new_operation_blocks_from_events(events, tree) ==
    ScanEvents([blocks |-> << >>, last_event_tx_hash |-> NoTxHash,
                last_tx_blocks |-> {},
                last_processed_block |-> tree.block_number,
                block_not_found |-> FALSE, fetched |-> << >>],
               SelectSeq(events,
                         LAMBDA e : IsNewEvent(e.block_num,
                                               tree.block_number)),
               1)

\* --------------------------------------------------- storage interactor

\* Set of block numbers as the ascending sequence of its elements.
RECURSIVE Ascending(_)
Ascending(S) ==
    IF S = {} THEN << >>
    ELSE LET m == CHOOSE x \in S : \A y \in S : x <= y
         IN  << m >> \o Ascending(S \ {m})

\* save_events_state: the events state is stored and the checkpoint
\* becomes Events.
save_events_state(d, events) ==
    [d EXCEPT !.events = events, !.storage_state = "Events"]

\* save_rollup_ops: the decoded ops blocks are stored.
save_rollup_ops(d, ops_blocks) == [d EXCEPT !.rollup_ops = ops_blocks]

\* StorageInteractor::update_tree_state for one block: the block and its
\* account updates are stored and the checkpoint becomes Operations.
store_block(d, block_num) ==
    [d EXCEPT !.blocks = @ \cup {block_num}, !.storage_state = "Operations"]

\* update_eth_state: the L1 counters are stored.
update_eth_state(d) == [d EXCEPT !.eth_state = Max(d.blocks \cup {0})]

\* StorageInteractor::update_tree_cache: the row of the tree's block is
\* written and the checkpoint returns to None.
update_tree_cache(d, tree) ==
    [d EXCEPT !.tree_cache =
                 {t \in @ : t.block_number # tree.block_number} \cup {tree},
              !.storage_state = "None"]

\* get_cached_tree_state: the cache row with the highest block.
get_cached_tree_state(d) ==
    CHOOSE t \in d.tree_cache :
        \A u \in d.tree_cache : u.block_number <= t.block_number

\* get_tree_state: the tree rebuilt from the stored blocks.
get_tree_state(d) ==
    [block_number |-> Max(d.blocks \cup {0}), applied |-> Ascending(d.blocks)]

RECURSIVE SumPriorityOps(_)
SumPriorityOps(S) ==
    IF S = {} THEN 0
    ELSE LET n == CHOOSE x \in S : TRUE
         IN  PriorityOpsIn(n) + SumPriorityOps(S \ {n})

\* get_max_priority_op_serial_id: the serial id that follows the priority
\* operations of the stored blocks.
get_max_priority_op_serial_id(d) == SumPriorityOps(d.blocks)

get_ops_blocks_from_storage(d) == d.rollup_ops

get_block_events_state_from_storage(d) == d.events

\* The storage calls of the nested transaction of update_tree_state: one
\* StorageInteractor::update_tree_state per applied block.
RECURSIVE StoreBlocks(_, _, _)
StoreBlocks(d, ops_blocks, i) ==
    IF i > Len(ops_blocks) THEN d
    ELSE StoreBlocks(store_block(d, ops_blocks[i].block_num), ops_blocks,
                     i + 1)

\* Names of the storage calls of StoreBlocks, for the record of writes.
BlockWrites(ops_blocks) ==
    [i \in 1 .. Len(ops_blocks) |-> "update_tree_state"]

\* ------------------------------------------------------ driver process

PANIC_EVENTS == "Updating events state: cant update events state"
PANIC_OPS == "Cant get new operation blocks from events"
PANIC_NOT_FOUND == "Block not found"
PANIC_FINAL_HASH == "Final hash was not met during the state restoring process"

Panics ==
    {PANIC_EVENTS, PANIC_OPS, PANIC_NOT_FOUND, PANIC_VERSION, PANIC_TREE,
     PANIC_FINAL_HASH}

\* The driver as DataRestoreDriver::new leaves it, at the call of
\* load_state_from_storage.
NewDriver ==
    /\ tree_state' = EmptyTree
    /\ events_state' = EmptyEvents
    /\ priority_op_data' = {}
    /\ last_priority_op_serial_id' = 0
    /\ new_ops_blocks' = << >>
    /\ final_hash_was_found' = FALSE
    /\ is_cached' = FALSE
    /\ db_transaction' = NoTransaction
    /\ driver_pc' = "load_state_from_storage"
    /\ writes' = << >>

\* The block reverter is not part of the run.
ReverterDone ==
    /\ command = "Storage"
    /\ last_correct_block = 0
    /\ overflow_checks = TRUE
    /\ storage = [tables |-> InitTables({}, 0), nonce |-> 0,
                  last_committed |-> 0, last_verified |-> 0]
    /\ storage0 = storage
    /\ transaction = NoTransaction
    /\ onchain_nonce = 0
    /\ l1_tx = NoTx
    /\ pc = "exit"
    /\ last_commited_block = 0
    /\ last_verified_block = 0
    /\ blocks_to_revert = 0
    /\ blocks = << >>
    /\ signed_tx = NoSignedTx
    /\ receipt = NoReceipt
    /\ elapsed = 0
    /\ ticks = 0
    /\ receipt_read = FALSE
    /\ step = 0
    /\ exit_code = "ok"
    /\ err = "none"
    /\ reason = NoReason
    /\ printed = {}

\* The database right after set_genesis_state, a configuration, and the
\* driver about to load its state.
InitDriver ==
    /\ finite_mode \in BOOLEAN
    /\ total_verified_blocks \in ChainBlocks
    /\ final_hash \in {NoHash} \cup {ChainRoot(n) : n \in ChainBlocks}
    /\ priority_requests = {}
    /\ contract_versions = [n \in ChainBlocks |-> 3]
    /\ tree_state = EmptyTree
    /\ events_state = EmptyEvents
    /\ priority_op_data = {}
    /\ last_priority_op_serial_id = 0
    /\ new_ops_blocks = << >>
    /\ final_hash_was_found = FALSE
    /\ is_cached = FALSE
    /\ driver_pc = "load_state_from_storage"
    /\ database = GenesisDatabase
    /\ db_transaction = NoTransaction
    /\ writes = << >>
    /\ crashes = 0
    /\ before_crash = NoCrash
    /\ ReverterDone
    /\ GenesisIdle
    /\ TickerIdle
    /\ TokenIdle
    /\ KeeperIdle

\* Configuration, environment and crash record: changed by no driver step.
fixedVars ==
    << finite_mode, final_hash, total_verified_blocks, priority_requests,
       contract_versions, crashes, before_crash >>

\* A panic ends the process; an open transaction is dropped.
Panic(msg) ==
    /\ driver_pc' = msg
    /\ db_transaction' = NoTransaction

\* Serial ids of the priority operations of rollup block n.
SerialIdsIn(n) ==
    FirstSerialId(n) .. (FirstSerialId(n) + PriorityOpsIn(n) - 1)

\* StorageInteractor::apply_priority_op_data: the L1 metadata is attached
\* to the stored priority operations; returns the serial ids of the logs
\* whose block is not stored.
apply_priority_op_data(d, data) ==
    {id \in data : \A n \in d.blocks : id \notin SerialIdsIn(n)}

\* EventsState::sift_priority_ops: only the logs with a serial id of the
\* given set are retained.
sift_priority_ops(data, serial_ids) == data \cap serial_ids

KeptPriorityOpsMutant(d, data) == data

\* The end of update_tree_state: the logs are applied to the storage of the
\* nested transaction and those without a stored block are kept.
KeptPriorityOps(d, data) ==
    sift_priority_ops(data, apply_priority_op_data(d, data))

update_tree_stateMutant(d, ops_blocks) ==
    LET r == ApplyOpsBlocks(tree_state, last_priority_op_serial_id,
                            ops_blocks, 1)
        stored == StoreBlocks(d, ops_blocks, 1)
    IN  [ok |-> TRUE, panic |-> r.panic, tree |-> r.tree,
         serial_id |-> r.serial_id, db |-> stored,
         priority_op_data |-> KeptPriorityOps(stored, priority_op_data)]

\* DataRestoreDriver::update_tree_state on the storage handle whose content
\* is d: the blocks are applied to the tree in memory, a failure panics
\* before any write; then the nested transaction stores every block,
\* applies the priority-op logs and commits into d, and the events state
\* keeps the logs that matched no stored block.
update_tree_state(d, ops_blocks) ==
    LET r == ApplyOpsBlocks(tree_state, last_priority_op_serial_id,
                            ops_blocks, 1)
        stored == StoreBlocks(d, ops_blocks, 1)
    IN  [ok |-> r.ok, panic |-> r.panic, tree |-> r.tree,
         serial_id |-> r.serial_id,
         db |-> IF r.ok THEN stored ELSE d,
         priority_op_data |->
             IF r.ok THEN KeptPriorityOps(stored, priority_op_data)
             ELSE priority_op_data]

ReplayPathMutant(state) == "load_finish"

\* `match state` of load_state_from_storage: the arm the checkpoint selects.
ReplayPath(state) ==
    CASE state = "Events" -> "replay_events"
      [] state = "Operations" -> "replay_operations"
      [] state = "None" -> "load_finish"

\* load_state_from_storage up to the match on the checkpoint.
LoadStateFromStorage ==
    /\ driver_pc = "load_state_from_storage"
    /\ db_transaction' = [open |-> TRUE, db |-> database]
    /\ events_state' = get_block_events_state_from_storage(database)
    /\ priority_op_data' = {}
    /\ is_cached' = (database.tree_cache # {})
    /\ tree_state' = IF database.tree_cache # {}
                     THEN get_cached_tree_state(database)
                     ELSE get_tree_state(database)
    /\ driver_pc' = ReplayPath(database.storage_state)
    /\ writes' = << >>
    /\ UNCHANGED << last_priority_op_serial_id, new_ops_blocks,
                    final_hash_was_found, database >>
    /\ UNCHANGED fixedVars
    /\ UNCHANGED nonDriverVars

\* The tail of both replay arms: update_tree_state inside the transaction
\* of load_state_from_storage.
ReplayBlocks(d, ops_blocks, log) ==
    LET u == update_tree_state(d, ops_blocks)
    IN  \/ /\ ~u.ok
           /\ Panic(u.panic)
           /\ writes' = writes \o log
           /\ UNCHANGED << tree_state, last_priority_op_serial_id,
                           priority_op_data >>
        \/ /\ u.ok
           /\ tree_state' = u.tree
           /\ priority_op_data' = u.priority_op_data
           /\ last_priority_op_serial_id' = u.serial_id
           /\ db_transaction' = [open |-> TRUE, db |-> u.db]
           /\ writes' = writes \o log \o BlockWrites(ops_blocks)
           /\ driver_pc' = "load_finish"

\* StorageUpdateState::Events arm of load_state_from_storage.
ReplayEvents ==
    /\ driver_pc = "replay_events"
    /\ LET scan == get_new_operation_blocks_from_events(events_state,
                                                        tree_state)
       IN  \/ /\ scan.block_not_found
              /\ Panic(PANIC_NOT_FOUND)
              /\ UNCHANGED << tree_state, last_priority_op_serial_id,
                              priority_op_data, new_ops_blocks, writes >>
           \/ /\ scan.blocks # << >>
              /\ Panic(PANIC_OPS)
              /\ UNCHANGED << tree_state, last_priority_op_serial_id,
                              priority_op_data, new_ops_blocks, writes >>
           \/ /\ ~scan.block_not_found
              /\ new_ops_blocks' = scan.blocks
              /\ ReplayBlocks(save_rollup_ops(db_transaction.db, scan.blocks),
                              scan.blocks, << "save_rollup_ops" >>)
    /\ UNCHANGED << events_state, final_hash_was_found, is_cached, database >>
    /\ UNCHANGED fixedVars
    /\ UNCHANGED nonDriverVars

\* StorageUpdateState::Operations arm of load_state_from_storage.
ReplayOperations ==
    /\ driver_pc = "replay_operations"
    /\ new_ops_blocks' = get_ops_blocks_from_storage(db_transaction.db)
    /\ ReplayBlocks(db_transaction.db, new_ops_blocks', << >>)
    /\ UNCHANGED << events_state, final_hash_was_found, is_cached, database >>
    /\ UNCHANGED fixedVars
    /\ UNCHANGED nonDriverVars

IsFinishedMutant == total_verified_blocks = tree_state.block_number

\* The exit of load_state_from_storage and of run_state_update.
IsFinished ==
    finite_mode /\ total_verified_blocks = tree_state.block_number

\* The return of load_state_from_storage: is_finished ends the process,
\* otherwise the caller enters run_state_update.
AfterLoad == IF IsFinished THEN "finished_on_load" ELSE "update_events_state"

SaveTreeCacheMutant(cached) == TRUE

\* `if !is_cached`: whether load_state_from_storage saves the tree cache.
SaveTreeCache(cached) == ~cached

\* load_state_from_storage after the match: the serial id is read, the
\* transaction is committed.
LoadFinish ==
    /\ driver_pc = "load_finish"
    /\ last_priority_op_serial_id' =
           get_max_priority_op_serial_id(db_transaction.db)
    /\ database' = db_transaction.db
    /\ db_transaction' = NoTransaction
    /\ driver_pc' = IF SaveTreeCache(is_cached)
                    THEN "load_update_tree_cache"
                    ELSE AfterLoad
    /\ new_ops_blocks' = << >>
    /\ UNCHANGED << tree_state, events_state, priority_op_data,
                    final_hash_was_found,
                    is_cached, writes >>
    /\ UNCHANGED fixedVars
    /\ UNCHANGED nonDriverVars

\* `if !is_cached { self.update_tree_cache(interactor) }`, then the return
\* to the caller, which runs run_state_update unless is_finished.
LoadUpdateTreeCache ==
    /\ driver_pc = "load_update_tree_cache"
    /\ database' = update_tree_cache(database, tree_state)
    /\ writes' = Append(writes, "update_tree_cache")
    /\ driver_pc' = AfterLoad
    /\ UNCHANGED << tree_state, events_state, priority_op_data,
                    last_priority_op_serial_id,
                    new_ops_blocks, final_hash_was_found, is_cached,
                    db_transaction >>
    /\ UNCHANGED fixedVars
    /\ UNCHANGED nonDriverVars

\* -------------------------------------------------------- run_state_update

\* The sequence of block events with the given block numbers.
EventsOf(s) == [i \in 1 .. Len(s) |-> BlockEvent(s[i])]

AfterEventsMutant(found) == "update_tree_state"

\* `if self.update_events_state(interactor).await`: the ops are decoded
\* only when the scan found block events.
AfterEvents(found) ==
    IF found THEN "update_operations_state" ELSE "end_iteration"

\* update_events_state: the L1 scan (an RPC error panics), then
\* save_events_state on the interactor; returns whether block events were
\* found. When none was found the verified and committed events are as
\* before.
UpdateEventsState ==
    /\ driver_pc = "update_events_state"
    /\ \/ /\ Panic(PANIC_EVENTS)
          /\ UNCHANGED << events_state, priority_op_data, database, writes >>
       \/ \E found \in BOOLEAN, s \in EventSeqs(total_verified_blocks),
             logs \in SUBSET priority_requests :
            /\ ~found => EventsOf(s) = events_state
            /\ events_state' = EventsOf(s)
            /\ priority_op_data' = priority_op_data \cup logs
            /\ database' = save_events_state(database, events_state')
            /\ writes' = << "save_events_state" >>
            /\ driver_pc' = AfterEvents(found)
            /\ UNCHANGED db_transaction
    /\ UNCHANGED << tree_state, last_priority_op_serial_id, new_ops_blocks,
                    final_hash_was_found, is_cached >>
    /\ UNCHANGED fixedVars
    /\ UNCHANGED nonDriverVars

AfterOperationsMutant(ops_blocks) == "update_tree_state"

\* `if !new_ops_blocks.is_empty()`: the tree transaction is entered only
\* with a block to apply.
AfterOperations(ops_blocks) ==
    IF ops_blocks = << >> THEN "end_iteration" ELSE "update_tree_state"

\* update_operations_state on the interactor: the ops blocks of the new
\* events are decoded and saved.
UpdateOperationsState ==
    /\ driver_pc = "update_operations_state"
    /\ LET scan == get_new_operation_blocks_from_events(events_state,
                                                        tree_state)
       IN  \/ /\ scan.block_not_found
              /\ Panic(PANIC_NOT_FOUND)
              /\ UNCHANGED << new_ops_blocks, database, writes >>
           \/ /\ scan.blocks # << >>
              /\ Panic(PANIC_OPS)
              /\ UNCHANGED << new_ops_blocks, database, writes >>
           \/ /\ ~scan.block_not_found
              /\ new_ops_blocks' = scan.blocks
              /\ database' = save_rollup_ops(database, scan.blocks)
              /\ writes' = Append(writes, "save_rollup_ops")
              /\ driver_pc' = AfterOperations(scan.blocks)
              /\ UNCHANGED db_transaction
    /\ UNCHANGED << tree_state, events_state, priority_op_data,
                    last_priority_op_serial_id,
                    final_hash_was_found, is_cached >>
    /\ UNCHANGED fixedVars
    /\ UNCHANGED nonDriverVars

VisibleInBatchMutant(d, tx_db) == tx_db

\* The committed database after a storage call of the batch: tree state,
\* L1 counters and tree cache are written through `transaction`, the handle
\* returned by interactor.start_transaction(), and are not visible before
\* its commit.
VisibleInBatch(d, tx_db) == d

\* interactor.start_transaction() and update_tree_state inside it.
UpdateTreeState ==
    /\ driver_pc = "update_tree_state"
    /\ LET u == update_tree_state(database, new_ops_blocks)
       IN  \/ /\ ~u.ok
              /\ Panic(u.panic)
              /\ UNCHANGED << tree_state, last_priority_op_serial_id,
                              priority_op_data, writes, database >>
           \/ /\ u.ok
              /\ tree_state' = u.tree
              /\ priority_op_data' = u.priority_op_data
              /\ last_priority_op_serial_id' = u.serial_id
              /\ db_transaction' = [open |-> TRUE, db |-> u.db]
              /\ database' = VisibleInBatch(database, u.db)
              /\ writes' = writes \o BlockWrites(new_ops_blocks)
              /\ driver_pc' = "update_eth_state"
    /\ UNCHANGED << events_state, new_ops_blocks, final_hash_was_found,
                    is_cached >>
    /\ UNCHANGED fixedVars
    /\ UNCHANGED nonDriverVars

\* get_total_verified_blocks and transaction.update_eth_state()
UpdateEthState ==
    /\ driver_pc = "update_eth_state"
    /\ db_transaction' = [db_transaction EXCEPT !.db = update_eth_state(@)]
    /\ database' = VisibleInBatch(database, db_transaction'.db)
    /\ writes' = Append(writes, "update_eth_state")
    /\ driver_pc' = "update_tree_cache"
    /\ UNCHANGED << tree_state, events_state, priority_op_data,
                    last_priority_op_serial_id,
                    new_ops_blocks, final_hash_was_found, is_cached >>
    /\ UNCHANGED fixedVars
    /\ UNCHANGED nonDriverVars

\* self.update_tree_cache(&mut transaction)
UpdateTreeCache ==
    /\ driver_pc = "update_tree_cache"
    /\ db_transaction' =
           [db_transaction EXCEPT !.db = update_tree_cache(@, tree_state)]
    /\ database' = VisibleInBatch(database, db_transaction'.db)
    /\ writes' = Append(writes, "update_tree_cache")
    /\ driver_pc' = "commit"
    /\ UNCHANGED << tree_state, events_state, priority_op_data,
                    last_priority_op_serial_id,
                    new_ops_blocks, final_hash_was_found, is_cached >>
    /\ UNCHANGED fixedVars
    /\ UNCHANGED nonDriverVars

FinalHashMetMutant(found, hash, root) == hash # NoHash /\ hash = root

\* final_hash_was_found after the comparison that follows the commit.
FinalHashMet(found, hash, root) == found \/ (hash # NoHash /\ hash = root)

AfterBatchMutant(found) == "end_iteration"

\* The finite mode test at the end of an iteration that applied blocks: the
\* loop is left by `break`, or by the panic when the final hash was not met.
AfterBatch(found) ==
    IF IsFinished
    THEN IF final_hash # NoHash /\ ~found
         THEN PANIC_FINAL_HASH
         ELSE "finished"
    ELSE "end_iteration"

\* transaction.commit(), the final hash comparison and the finite mode test.
CommitBatch ==
    /\ driver_pc = "commit"
    /\ database' = db_transaction.db
    /\ db_transaction' = NoTransaction
    /\ final_hash_was_found' =
           FinalHashMet(final_hash_was_found, final_hash,
                        root_hash(tree_state))
    /\ driver_pc' = AfterBatch(final_hash_was_found')
    /\ UNCHANGED << tree_state, events_state, priority_op_data,
                    last_priority_op_serial_id,
                    new_ops_blocks, is_cached, writes >>
    /\ UNCHANGED fixedVars
    /\ UNCHANGED nonDriverVars

\* The end of the loop body: sleep when the scan did not advance; the
\* locals of the body go out of scope.
EndIteration ==
    /\ driver_pc = "end_iteration"
    /\ driver_pc' = "update_events_state"
    /\ new_ops_blocks' = << >>
    /\ UNCHANGED << tree_state, events_state, priority_op_data,
                    last_priority_op_serial_id,
                    final_hash_was_found, is_cached, database,
                    db_transaction, writes >>
    /\ UNCHANGED fixedVars
    /\ UNCHANGED nonDriverVars

\* Positions at which the driver process is running.
Running ==
    { "load_state_from_storage", "replay_events", "replay_operations",
      "load_finish", "load_update_tree_cache", "update_events_state",
      "update_operations_state", "update_tree_state", "update_eth_state",
      "update_tree_cache", "commit", "end_iteration" }

\* What the run would do from the present position if it were not
\* terminated: whether the iteration in progress completes (no panic of the
\* scan or of the tree) and the tree at its end.
Uninterrupted ==
    IF driver_pc \in {"update_operations_state", "update_tree_state"}
    THEN LET scan == get_new_operation_blocks_from_events(events_state,
                                                          tree_state)
             r == ApplyOpsBlocks(tree_state, last_priority_op_serial_id,
                                 scan.blocks, 1)
         IN  [at |-> driver_pc, ok |-> ~scan.block_not_found /\ r.ok,
              tree |-> r.tree]
    ELSE [at |-> driver_pc, ok |-> TRUE, tree |-> tree_state]

\* The process is terminated and started again: the open transaction is
\* rolled back, the memory is lost, a new driver loads the state.
Crash ==
    /\ driver_pc \in Running
    /\ crashes < MaxCrashes
    /\ crashes' = crashes + 1
    /\ before_crash' = Uninterrupted
    /\ NewDriver
    /\ UNCHANGED << finite_mode, final_hash, total_verified_blocks,
                    priority_requests, contract_versions, database >>
    /\ UNCHANGED nonDriverVars

NextDriver ==
    \/ LoadStateFromStorage
    \/ ReplayEvents
    \/ ReplayOperations
    \/ LoadFinish
    \/ LoadUpdateTreeCache
    \/ UpdateEventsState
    \/ UpdateOperationsState
    \/ UpdateTreeState
    \/ UpdateEthState
    \/ UpdateTreeCache
    \/ CommitBatch
    \/ EndIteration
    \/ Crash

DriverSpec == InitDriver /\ [][NextDriver]_vars

\* A scan that returns block events above the block of the tree.
DeliverNewEvents ==
    /\ UpdateEventsState
    /\ driver_pc' = "update_operations_state"
    /\ \E i \in DOMAIN events_state' :
           events_state'[i].block_num > tree_state.block_number

\* The steps the driver takes by itself once it can: every awaited call
\* returns.
DriverProgram ==
    \/ LoadStateFromStorage
    \/ ReplayEvents
    \/ ReplayOperations
    \/ LoadFinish
    \/ LoadUpdateTreeCache
    \/ UpdateOperationsState
    \/ UpdateTreeState
    \/ UpdateEthState
    \/ UpdateTreeCache
    \/ CommitBatch
    \/ EndIteration

\* The driver keeps running, and of the scans it makes again and again one
\* eventually returns events of blocks it has not applied.
FairDriverSpec ==
    /\ DriverSpec
    /\ WF_vars(DriverProgram)
    /\ SF_vars(DeliverNewEvents)

\* ------------------------------------------- one run of run_state_update

\* Serial ids of the NewPriorityRequest logs L1 can hold: those of the
\* priority operations of the chain and one that no block executes.
PriorityRequests == 0 .. SumPriorityOps(ChainBlocks)

\* Verified and committed events as a scan can leave them in the events
\* state: sorted by block number, the transaction hash of an event need not
\* be that of the transaction that committed its block.
ScannedEvents ==
    { s \in UNION { [1 .. k -> [block_num : ChainBlocks,
                                transaction_hash :
                                    {TxHash(n) : n \in ChainBlocks}]] :
                       k \in 1 .. MaxEvents } :
        \A i \in 1 .. Len(s) - 1 : s[i].block_num <= s[i + 1].block_num }

\* The driver inside run_state_update, after load_state_from_storage left
\* an empty tree with its cache row and the first scan saved its events:
\* any events, any priority-op logs and any contract version per block.
InitLoop ==
    /\ finite_mode = TRUE
    /\ total_verified_blocks = MaxBlock
    /\ final_hash = NoHash
    /\ priority_requests \in SUBSET PriorityRequests
    /\ contract_versions \in [ChainBlocks -> {NoVersion, 3, 4}]
    /\ tree_state = EmptyTree
    /\ events_state \in ScannedEvents
    /\ priority_op_data \in SUBSET priority_requests
    /\ last_priority_op_serial_id = 0
    /\ new_ops_blocks = << >>
    /\ final_hash_was_found = FALSE
    /\ is_cached = FALSE
    /\ driver_pc = "update_operations_state"
    /\ database = save_events_state(
                      update_tree_cache(GenesisDatabase, EmptyTree),
                      events_state)
    /\ db_transaction = NoTransaction
    /\ writes = << "save_events_state" >>
    /\ crashes = 0
    /\ before_crash = NoCrash
    /\ ReverterDone
    /\ GenesisIdle
    /\ TickerIdle
    /\ TokenIdle
    /\ KeeperIdle

NextLoop ==
    \/ UpdateEventsState
    \/ UpdateOperationsState
    \/ UpdateTreeState
    \/ UpdateEthState
    \/ UpdateTreeCache
    \/ CommitBatch
    \/ EndIteration

LoopSpec == InitLoop /\ [][NextLoop]_vars

\* ------------------------------------------------------ set_genesis_state

\* Token::new
Token_new(id, address, symbol, decimals, kind) ==
    [id |-> id, address |-> address, symbol |-> symbol,
     decimals |-> decimals, kind |-> kind, is_nft |-> kind = "NFT"]

\* Account::create_account: the new account and its Create update.
create_account(id, address) ==
    LET account == [address |-> address, nonce |-> 0, balances |-> EmptyMap]
    IN  [account |-> account,
         updates |-> << << id, [update |-> "Create", address |-> address,
                               nonce |-> account.nonce] >> >>]

\* AccountMap::insert, Account::set_balance
Insert(map, key, value) ==
    [k \in DOMAIN map \cup {key} |-> IF k = key THEN value ELSE map[k]]

\* The NFT custody account as set_genesis_state funds it.
SpecialAccount ==
    LET created == create_account(NFT_STORAGE_ACCOUNT_ID,
                                  NFT_STORAGE_ACCOUNT_ADDRESS)
    IN  [created.account EXCEPT
            !.balances = Insert(@, NFT_TOKEN_ID, MIN_NFT_TOKEN_ID)]

\* account_updates of set_genesis_state after its three pushes.
GenesisAccountUpdates(fee_account) ==
    << << 0, [update |-> "Create", address |-> fee_account.address,
              nonce |-> fee_account.nonce] >>,
       create_account(NFT_STORAGE_ACCOUNT_ID,
                      NFT_STORAGE_ACCOUNT_ADDRESS).updates[1],
       << NFT_STORAGE_ACCOUNT_ID,
          [update |-> "UpdateBalance", old_nonce |-> SpecialAccount.nonce,
           new_nonce |-> SpecialAccount.nonce,
           balance_update |-> << NFT_TOKEN_ID, 0, MIN_NFT_TOKEN_ID >>] >> >>

GenesisAccountMapMutant(fee_account) == Insert(EmptyMap, 0, fee_account)

\* account_map of set_genesis_state after its two inserts.
GenesisAccountMap(fee_account) ==
    Insert(Insert(EmptyMap, 0, fee_account), NFT_STORAGE_ACCOUNT_ID,
           SpecialAccount)

\* save_special_token: the token is stored.
save_special_token(d, special_token) ==
    [d EXCEPT !.tokens = @ \cup {special_token}]

\* save_genesis_tree_state: the account updates of block 0 are stored.
save_genesis_tree_state(d, updates) == [d EXCEPT !.account_updates = updates]

\* A fresh database, a genesis fee account and a genesis L1 block, and the
\* driver about to run set_genesis_state.
InitGenesis ==
    /\ genesis_eth_block_number \in 0 .. MaxEthBlock
    /\ genesis_fee_account \in GenesisAccounts
    /\ account_updates = << >>
    /\ account_map = EmptyMap
    /\ tree_accounts = EmptyMap
    /\ finite_mode = FALSE
    /\ final_hash = NoHash
    /\ total_verified_blocks = 0
    /\ priority_requests = {}
    /\ contract_versions = [n \in ChainBlocks |-> 3]
    /\ tree_state = EmptyTree
    /\ events_state = EmptyEvents
    /\ priority_op_data = {}
    /\ last_priority_op_serial_id = 0
    /\ new_ops_blocks = << >>
    /\ final_hash_was_found = FALSE
    /\ is_cached = FALSE
    /\ driver_pc = "set_genesis_state"
    /\ database = EmptyDatabase
    /\ db_transaction = NoTransaction
    /\ writes = << >>
    /\ crashes = 0
    /\ before_crash = NoCrash
    /\ ReverterDone
    /\ TickerIdle
    /\ TokenIdle
    /\ KeeperIdle

\* What no step of set_genesis_state changes.
genesisFixed ==
    << genesis_eth_block_number, genesis_fee_account, finite_mode,
       final_hash, total_verified_blocks, events_state, priority_op_data,
       priority_requests, contract_versions, last_priority_op_serial_id,
       new_ops_blocks, final_hash_was_found, is_cached, crashes,
       before_crash, revertVars, tickerVars, tokenVars, keeperVars >>

\* interactor.start_transaction()
GenesisStartTransaction ==
    /\ driver_pc = "set_genesis_state"
    /\ db_transaction' = [open |-> TRUE, db |-> database]
    /\ driver_pc' = "genesis_save_events_state"
    /\ UNCHANGED << database, tree_state, writes, account_updates,
                    account_map, tree_accounts, genesisFixed >>

\* transaction.save_events_state(&[], &[], &[], genesis_eth_block_number):
\* the last watched L1 block, which the loop of the driver leaves out, is
\* stored with the events.
GenesisSaveEventsState ==
    /\ driver_pc = "genesis_save_events_state"
    /\ db_transaction' =
           [db_transaction EXCEPT
               !.db = [save_events_state(@, << >>) EXCEPT
                          !.last_watched_eth_block =
                              genesis_eth_block_number]]
    /\ writes' = Append(writes, "save_events_state")
    /\ driver_pc' = "genesis_save_special_token"
    /\ UNCHANGED << database, tree_state, account_updates, account_map,
                    tree_accounts, genesisFixed >>

\* transaction.save_special_token(Token::new(..))
GenesisSaveSpecialToken ==
    /\ driver_pc = "genesis_save_special_token"
    /\ db_transaction' =
           [db_transaction EXCEPT
               !.db = save_special_token(@,
                          Token_new(NFT_TOKEN_ID, NFT_STORAGE_ACCOUNT_ADDRESS,
                                    "SPECIAL", 18, "NFT"))]
    /\ writes' = Append(writes, "save_special_token")
    /\ driver_pc' = "genesis_accounts"
    /\ UNCHANGED << database, tree_state, account_updates, account_map,
                    tree_accounts, genesisFixed >>

\* The account updates and the account map are built and the tree is
\* loaded from them; transaction.save_genesis_tree_state(&account_updates).
GenesisSaveTreeState ==
    /\ driver_pc = "genesis_accounts"
    /\ account_updates' = GenesisAccountUpdates(genesis_fee_account)
    /\ account_map' = GenesisAccountMap(genesis_fee_account)
    /\ db_transaction' =
           [db_transaction EXCEPT
               !.db = save_genesis_tree_state(@, account_updates')]
    /\ writes' = Append(writes, "save_genesis_tree_state")
    /\ driver_pc' = "genesis_commit"
    /\ UNCHANGED << database, tree_state, tree_accounts, genesisFixed >>

\* transaction.commit() and `self.tree_state = tree_state`, the tree
\* loaded at block 0 from account_map.
GenesisCommit ==
    /\ driver_pc = "genesis_commit"
    /\ database' = db_transaction.db
    /\ db_transaction' = NoTransaction
    /\ tree_state' = [block_number |-> 0, applied |-> << >>]
    /\ tree_accounts' = account_map
    /\ driver_pc' = "genesis_done"
    /\ UNCHANGED << writes, account_updates, account_map, genesisFixed >>

\* The process is terminated inside set_genesis_state: the open
\* transaction is rolled back.
GenesisTerminate ==
    /\ driver_pc \in { "set_genesis_state", "genesis_save_events_state",
                        "genesis_save_special_token", "genesis_accounts",
                        "genesis_commit" }
    /\ db_transaction' = NoTransaction
    /\ driver_pc' = "terminated"
    /\ UNCHANGED << database, tree_state, writes, account_updates,
                    account_map, tree_accounts, genesisFixed >>

NextGenesis ==
    \/ GenesisStartTransaction
    \/ GenesisSaveEventsState
    \/ GenesisSaveSpecialToken
    \/ GenesisSaveTreeState
    \/ GenesisCommit
    \/ GenesisTerminate

GenesisSpec == InitGenesis /\ [][NextGenesis]_vars

\* ----------------------------------------------------------- fee ticker

\* The tokens table: RDOC, a token whose symbol differs from it by case
\* only, and another token.
StoredTokens ==
    { Token_new(1, 1, "RDOC", 18, "ERC20"),
      Token_new(2, 2, "TEST", 18, "ERC20"),
      Token_new(3, 3, "rdoc", 18, "ERC20") }

\* enum TokenLike, as far as get_last_quote is called with it: the stored
\* tokens and one that is not stored, by id, by address and by symbol.
TokenRequests ==
    [kind : {"Id", "Address"}, value : 1 .. 4] \cup
    [kind : {"Symbol"}, value : {"RDOC", "TEST", "rdoc", "NONE"}]

\* token_db_cache.get_token: the stored tokens the request names.
get_token(request) ==
    { t \in StoredTokens :
        CASE request.kind = "Id" -> t.id = request.value
          [] request.kind = "Address" -> t.address = request.value
          [] request.kind = "Symbol" -> t.symbol = request.value }

IsRdocMutant(t) == FALSE

\* `token.symbol == "RDOC"`
IsRdoc(t) == t.symbol = "RDOC"

\* TickerApi::update_stored_value: the price is written to the stored
\* historical ticker prices.
update_stored_value(stored, token_id, price) ==
    [stored EXCEPT ![token_id] = price]

\* Any price cache and any stored prices, and a call of get_last_quote.
InitTicker ==
    /\ token_request \in TokenRequests
    /\ token = NoToken
    /\ price_cache \in [{t.id : t \in StoredTokens} -> Prices \cup {NoPrice}]
    /\ historical_price \in
           [{t.id : t \in StoredTokens} -> Prices \cup {NoPrice}]
    /\ quote = NoQuote
    /\ consulted = {}
    /\ ticker_pc = "get_last_quote"
    /\ DriverIdle
    /\ ReverterDone
    /\ GenesisIdle
    /\ TokenIdle
    /\ KeeperIdle

\* get_last_quote up to the return for RDOC: the token is resolved, which
\* fails on a database error and when no token is found.
GetToken ==
    /\ ticker_pc = "get_last_quote"
    /\ \/ /\ quote' = [ok |-> FALSE, error |-> "db_error"]
          /\ ticker_pc' = "returned"
          /\ UNCHANGED token
       \/ /\ get_token(token_request) = {}
          /\ quote' = [ok |-> FALSE, error |-> "token_not_found"]
          /\ ticker_pc' = "returned"
          /\ UNCHANGED token
       \/ \E t \in get_token(token_request) :
            /\ token' = t
            /\ IF IsRdoc(t)
               THEN /\ quote' = [ok |-> TRUE, usd_price |-> 1]
                    /\ ticker_pc' = "returned"
               ELSE /\ ticker_pc' = "get_stored_value"
                    /\ UNCHANGED quote
    /\ UNCHANGED << token_request, price_cache, historical_price, consulted >>
    /\ UNCHANGED << revertVars, driverVars, genesisVars, tokenVars,
                    keeperVars >>

\* `if let Some(cached_value) = self.get_stored_value(token.id)`
GetStoredValue ==
    /\ ticker_pc = "get_stored_value"
    /\ consulted' = consulted \cup {"price_cache"}
    /\ IF price_cache[token.id] # NoPrice
       THEN /\ quote' = [ok |-> TRUE, usd_price |-> price_cache[token.id]]
            /\ ticker_pc' = "returned"
       ELSE /\ ticker_pc' = "get_historical_ticker_price"
            /\ UNCHANGED quote
    /\ UNCHANGED << token_request, token, price_cache, historical_price >>
    /\ UNCHANGED << revertVars, driverVars, genesisVars, tokenVars,
                    keeperVars >>

\* get_historical_ticker_price, whose error is logged only; a price that
\* is found is passed to update_stored_value, whose result is dropped, and
\* returned.
GetHistoricalTickerPrice ==
    /\ ticker_pc = "get_historical_ticker_price"
    /\ consulted' = consulted \cup {"historical_price"}
    /\ \/ /\ quote' = [ok |-> FALSE, error |-> "No price stored in database"]
          /\ UNCHANGED historical_price
       \/ /\ historical_price[token.id] = NoPrice
          /\ quote' = [ok |-> FALSE, error |-> "No price stored in database"]
          /\ UNCHANGED historical_price
       \/ /\ historical_price[token.id] # NoPrice
          /\ quote' = [ok |-> TRUE, usd_price |-> historical_price[token.id]]
          /\ \/ historical_price' =
                   update_stored_value(historical_price, token.id,
                                       historical_price[token.id])
             \/ UNCHANGED historical_price
    /\ ticker_pc' = "returned"
    /\ UNCHANGED << token_request, token, price_cache >>
    /\ UNCHANGED << revertVars, driverVars, genesisVars, tokenVars,
                    keeperVars >>

NextTicker ==
    \/ GetToken
    \/ GetStoredValue
    \/ GetHistoricalTickerPrice

TickerSpec == InitTicker /\ [][NextTicker]_vars

\* ------------------------------------------------------ keep_price_updated

\* Result<Vec<Token>, _>::Ok of get_all_tokens: the values of the map
\* load_tokens returns, in any order.
TokenVecs ==
    { v \in [1 .. Cardinality(StoredTokens) -> StoredTokens] :
        \A i, j \in DOMAIN v : i # j => v[i] # v[j] }

\* Result<TokenPrice, PriceError> of token_price_api.get_price.
ApiResults ==
    [kind : {"Ok"}, usd_price : Prices] \cup
    [kind : {"TokenNotFound", "ApiError"}, usd_price : {NoPrice}]

api_priceMutant(r) ==
    [ok |-> r.kind = "Ok", usd_price |-> r.usd_price]

\* `let api_price = match self.token_price_api.get_price(token).await`:
\* the price to store, or the return with the error of the API.
api_price(r) ==
    CASE r.kind = "Ok" -> [ok |-> TRUE, usd_price |-> r.usd_price]
      [] r.kind = "TokenNotFound" -> [ok |-> TRUE, usd_price |-> 0]
      [] OTHER -> [ok |-> FALSE, usd_price |-> NoPrice]

\* TickerApi::update_price: its result and the stored prices after it,
\* given the result of the price API and whether the database write works.
update_price(stored, t, r, db_ok) ==
    LET p == api_price(r)
    IN  IF ~p.ok
        THEN [result |-> "ApiError", stored |-> stored]
        ELSE IF ~db_ok
        THEN [result |-> "DBError", stored |-> stored]
        ELSE [result |-> "Ok",
              stored |-> update_stored_value(stored, t.id, p.usd_price)]

\* `for token in &tokens`: the body is entered for the next token, or the
\* loop is left for the sleep.
ForTokens(v, visited) ==
    IF visited < Len(v) THEN "update_price" ELSE "sleep"

\* Any stored prices, and the task at the top of its loop.
InitKeeper ==
    /\ token_request = [kind |-> "Id", value |-> 0]
    /\ token = NoToken
    /\ price_cache = [t \in {} |-> NoPrice]
    /\ historical_price \in
           [{t.id : t \in StoredTokens} -> Prices \cup {NoPrice}]
    /\ quote = NoQuote
    /\ consulted = {}
    /\ ticker_pc = "idle"
    /\ tokens = << >>
    /\ listed = "none"
    /\ updated = << >>
    /\ keeper_pc = "get_all_tokens"
    /\ DriverIdle
    /\ ReverterDone
    /\ GenesisIdle
    /\ TokenIdle

\* `if let Ok(tokens) = self.get_all_tokens().await`, with the warning of
\* the else branch.
GetAllTokens ==
    /\ keeper_pc = "get_all_tokens"
    /\ \/ /\ listed' = "Err"
          /\ keeper_pc' = "sleep"
          /\ UNCHANGED tokens
       \/ \E v \in TokenVecs :
            /\ listed' = "Ok"
            /\ tokens' = v
            /\ keeper_pc' = ForTokens(v, 0)
    /\ UNCHANGED << updated, tickerVars >>
    /\ UNCHANGED << revertVars, driverVars, genesisVars, tokenVars >>

\* One turn of the for loop: update_price for the next token; its error
\* is logged.
UpdatePrice ==
    /\ keeper_pc = "update_price"
    /\ \E r \in ApiResults, db_ok \in BOOLEAN :
         LET t == tokens[Len(updated) + 1]
             u == update_price(historical_price, t, r, db_ok)
         IN  /\ historical_price' = u.stored
             /\ updated' =
                    Append(updated, [api |-> r.kind, result |-> u.result])
             /\ keeper_pc' = ForTokens(tokens, Len(updated'))
    /\ UNCHANGED << tokens, listed, token_request, token, price_cache,
                    quote, consulted, ticker_pc >>
    /\ UNCHANGED << revertVars, driverVars, genesisVars, tokenVars >>

\* tokio::time::sleep(UPDATE_PRICE_INTERVAL_SECS) returns and the loop
\* starts over.
Sleep ==
    /\ keeper_pc = "sleep"
    /\ tokens' = << >>
    /\ listed' = "none"
    /\ updated' = << >>
    /\ keeper_pc' = "get_all_tokens"
    /\ UNCHANGED tickerVars
    /\ UNCHANGED << revertVars, driverVars, genesisVars, tokenVars >>

NextKeeper ==
    \/ GetAllTokens
    \/ UpdatePrice
    \/ Sleep

KeeperSpec == InitKeeper /\ [][NextKeeper]_vars

\* The runtime keeps polling the task, every awaited call returns and the
\* sleep ends.
FairKeeperSpec == KeeperSpec /\ WF_vars(NextKeeper)

\* ------------------------------------------------------ TokenLike::is_rbtc

\* enum TokenLike: ids, addresses, and symbols as sequences of characters.
TokenLikes ==
    [kind : {"Id", "Address"}, value : 0 .. MaxTokenId] \cup
    [kind : {"Symbol"},
     value : UNION { [1 .. n -> Chars] : n \in 0 .. MaxSymbolLen }]

to_ascii_lowercaseMutant(c) == c

\* char::to_ascii_lowercase
to_ascii_lowercase(c) ==
    CASE c = "R" -> "r"
      [] c = "B" -> "b"
      [] c = "T" -> "t"
      [] c = "C" -> "c"
      [] OTHER -> c

\* TokenLike::is_rbtc
is_rbtc(self) ==
    CASE self.kind = "Symbol" ->
             [i \in 1 .. Len(self.value) |->
                 to_ascii_lowercase(self.value[i])] = << "r", "b", "t", "c" >>
      [] self.kind = "Address" -> self.value = ZERO_ADDRESS
      [] self.kind = "Id" -> self.value = 0

\* Any token descriptor, and a call of is_rbtc on it.
InitToken ==
    /\ token_like \in TokenLikes
    /\ is_rbtc_result = FALSE
    /\ token_pc = "is_rbtc"
    /\ DriverIdle
    /\ ReverterDone
    /\ GenesisIdle
    /\ TickerIdle
    /\ KeeperIdle

\* The call returns.
IsRbtc ==
    /\ token_pc = "is_rbtc"
    /\ is_rbtc_result' = is_rbtc(token_like)
    /\ token_pc' = "returned"
    /\ UNCHANGED token_like
    /\ UNCHANGED << revertVars, driverVars, genesisVars, tickerVars,
                    keeperVars >>

NextToken ==
    \/ IsRbtc

TokenSpec == InitToken /\ [][NextToken]_vars

\* ----------------------------------------------------------- specification

Next ==
    \/ Main
    \/ GetBlocks
    \/ SignPreparedTx
    \/ SendRawTx
    \/ MineTx
    \/ TxReceipt
    \/ GetNextNonce
    \/ CheckStatus
    \/ StartTransaction
    \/ StorageStep
    \/ Commit

Spec == Init /\ [][Next]_vars

\* Every awaited call of the tool returns: the steps of the program are
\* taken as long as they are enabled. The L1 network is under no obligation.
Program ==
    \/ Main
    \/ GetBlocks
    \/ SignPreparedTx
    \/ SendRawTx
    \/ TxReceipt
    \/ GetNextNonce
    \/ CheckStatus
    \/ StartTransaction
    \/ StorageStep
    \/ Commit

FairSpec == Spec /\ WF_vars(Program)

\* ------------------------------------------------------------------ claims

\* No transaction is open and no committed row differs from the start.
TablesUntouched ==
    /\ storage.tables = storage0.tables
    /\ transaction = NoTransaction

\* revert_blocks_in_storage was called.
StorageRevertStarted ==
    \/ pc \in {"start_transaction", "in_transaction"}
    \/ step > 0

\* The run ended with Err or a panic.
RunFailed == pc = "exit" /\ exit_code \in {"error", "panic"}

\* C1: in every mode, when the last verified block is above the last correct
\* block the run ends with "Some blocks to revert are already verified" (or
\* with the error of the database read that precedes the test) and nothing
\* has changed: no revertBlocks transaction was signed or sent and the
\* database is as it was.
C1_VerifiedBlocksAbort ==
    storage0.last_verified > last_correct_block =>
        /\ pc \in {"main", "exit"}
        /\ storage = storage0
        /\ TablesUntouched
        /\ step = 0
        /\ l1_tx = NoTx
        /\ signed_tx = NoSignedTx
        /\ pc = "exit" =>
              /\ exit_code = "error"
              /\ err # MSG_DB => err = MSG_VERIFIED

C1_Witness ==
    /\ storage0.last_verified > last_correct_block
    /\ pc = "exit"
    /\ err = MSG_VERIFIED
    /\ command = "All"
    /\ \E b \in storage0.tables["blocks"] : b > last_correct_block

\* C2: whenever the last committed block is not above the last correct block
\* the run changes nothing: no revertBlocks transaction is sent and no storage
\* row is modified, in every mode.
C2_NothingToRevertIsNoOp ==
    storage0.last_committed <= last_correct_block =>
        /\ l1_tx = NoTx
        /\ storage = storage0

\* C3: in mode All the storage revert is started only after the revertBlocks
\* transaction was sent, was included on L1 and its receipt, read by the tool,
\* has the success status.
C3_ContractBeforeStorage ==
    (command = "All" /\ StorageRevertStarted) =>
        /\ l1_tx.status = "success"
        /\ receipt.status = RECEIPT_SUCCESS
        /\ PRINT_CONTRACT \in printed

C3_Witness ==
    /\ command = "All"
    /\ pc = "in_transaction"
    /\ step = 1
    /\ l1_tx.status = "success"

\* The tables the storage revert cuts at the last correct block.
DerivedTables ==
    { "blocks", "pending_block", "account_tree_cache",
      "account_balance_updates", "account_creates", "account_pubkey_updates",
      "mint_nft_updates", "aggregate_operations", "eth_aggregated_ops_binding",
      "block_witness", "proofs", "aggregated_proofs", "prover_job_queue" }

\* The state C4 asks for after a run that ended with Ok(()).
RevertedTo(n) ==
    /\ \A t \in DerivedTables :
          storage.tables[t] = KeepUpTo(storage0.tables[t], n)
    /\ storage.nonce = onchain_nonce

\* C4: after a successful run in mode All or Storage with last correct block
\* K, every derived table holds exactly its former rows with block number
\* <= K, and the stored operator nonce is the operator's nonce on L1.
C4_StorageRevertedToK ==
    (pc = "exit" /\ exit_code = "ok" /\ command \in {"All", "Storage"}) =>
        RevertedTo(last_correct_block)

\* C4 restricted to the runs in which the last committed block is not below
\* the last correct block.
C4_WhenCommittedNotBelow ==
    (/\ pc = "exit" /\ exit_code = "ok" /\ command \in {"All", "Storage"}
     /\ storage0.last_committed >= last_correct_block) =>
        RevertedTo(last_correct_block)

\* The descriptors of the blocks hi, hi - 1, ..., lo + 1.
DescriptorsDescending(lo, hi) ==
    [i \in 1 .. (IF hi > lo THEN hi - lo ELSE 0) |->
        stored_block_info(Block(hi - i + 1))]

\* C5: the argument of revertBlocks is the list of the descriptors of exactly
\* the blocks n with last_correct_block < n <= last_committed_block, each
\* once, in descending block number.
C5_ArgumentIsRevertedRange ==
    l1_tx # NoTx =>
        l1_tx.data.arg =
            DescriptorsDescending(last_correct_block, storage0.last_committed)

\* C5 restricted to the runs in which no u32 operation wraps to block 0.
C5_WhenNoWrapToZero ==
    (l1_tx # NoTx /\ (overflow_checks \/ last_correct_block < U32_MAX)) =>
        l1_tx.data.arg =
            DescriptorsDescending(last_correct_block, storage0.last_committed)

\* C6: the gas limit of the revertBlocks transaction is
\* 200000 + 15000 * n, n being the number of descriptors in the call, and
\* n = last_committed_block - last_correct_block.
C6_GasLimit ==
    l1_tx # NoTx =>
        /\ l1_tx.gas = 200000 + 15000 * Len(l1_tx.data.arg)
        /\ Len(l1_tx.data.arg) = storage0.last_committed - last_correct_block

\* C6 restricted to the runs in which the last committed block is not below
\* the last correct block and the block range does not wrap.
C6_WhenCommittedNotBelow ==
    (/\ l1_tx # NoTx
     /\ storage0.last_committed >= last_correct_block
     /\ (overflow_checks \/ last_correct_block < U32_MAX)) =>
        /\ l1_tx.gas = 200000 + 15000 * Len(l1_tx.data.arg)
        /\ Len(l1_tx.data.arg) = storage0.last_committed - last_correct_block

\* A receipt was returned to revert_blocks_on_contract and its status is not
\* success.
FailedReceipt == receipt # NoReceipt /\ receipt.status # RECEIPT_SUCCESS

\* C7 as stated: when the receipt has a status other than success the run
\* ends as failed with the error that carries the failure reason decoded from
\* the contract, and no derived row is deleted.
C7_FailedReceiptCarriesReason ==
    FailedReceipt =>
        /\ TablesUntouched
        /\ pc = "exit" =>
              /\ RunFailed
              /\ err = MSG_TX_FAILED
              /\ reason = l1_tx.reason
              /\ reason \in FailureReasons

\* C7 amended: when the receipt has a status other than success the storage
\* revert is never started, no derived row is deleted and the run ends as
\* failed: with "Tx to contract failed" carrying the contract's failure reason
\* when the nonce fetch and the failure_reason call succeeded, with the error
\* of the failure_reason call when that call failed, and with the panic of
\* the nonce fetch when that failed.
C7_FailedReceiptFails ==
    FailedReceipt =>
        /\ TablesUntouched
        /\ ~StorageRevertStarted
        /\ PRINT_CONTRACT \notin printed
        /\ pc \in {"get_next_nonce", "check_status", "exit"}
        /\ pc = "exit" =>
              /\ RunFailed
              /\ err \in {MSG_TX_FAILED, MSG_REASON_RPC, MSG_NONCE}
              /\ err = MSG_TX_FAILED <=>
                    (reason = l1_tx.reason /\ reason \in FailureReasons)
              /\ err = MSG_NONCE <=> exit_code = "panic"

C7_Witness ==
    /\ FailedReceipt
    /\ command = "All"
    /\ pc = "exit"
    /\ err = MSG_TX_FAILED
    /\ reason \in FailureReasons
    /\ \E b \in storage0.tables["blocks"] : b > last_correct_block

\* C8: once the revertBlocks transaction is sent the receipt wait always
\* ends; it ends with a receipt, with "Operation timeout" or with the error of
\* the receipt call; a timeout happens only when the deadline can have passed
\* without a receipt, ends the run as failed and leaves the storage revert
\* undone.
C8_ReceiptWaitEnds ==
    /\ (pc = "tx_receipt") ~> (pc # "tx_receipt")
    /\ [][(pc = "tx_receipt" /\ pc' # "tx_receipt") =>
             \/ pc' = "get_next_nonce" /\ receipt' # NoReceipt
             \/ /\ pc' = "exit"
                /\ exit_code' = "error"
                /\ err' \in {MSG_TIMEOUT, MSG_RECEIPT}
                /\ receipt' = NoReceipt
                /\ err' = MSG_TIMEOUT =>
                      elapsed + MaxPollDelay > ConfirmationTimeout]_vars
    /\ [](err = MSG_TIMEOUT =>
             /\ RunFailed
             /\ ~StorageRevertStarted
             /\ TablesUntouched
             /\ storage = storage0)

C8_Witness ==
    /\ pc = "exit"
    /\ err = MSG_TIMEOUT
    /\ command = "All"
    /\ l1_tx.status = "pending"

\* C9: a failure of the nonce fetch that follows a successful contract revert
\* does not fail the run: the contract revert is reported as done and the run
\* does not end with a panic.
C9_NonceFailureNotFatal ==
    (receipt.status = RECEIPT_SUCCESS /\ err = MSG_NONCE) =>
        /\ PRINT_CONTRACT \in printed
        /\ ~RunFailed

\* C10: mode Contract never starts the storage revert and leaves every table
\* as it was, and when it ends with Ok(()) the success receipt was read; mode
\* Storage signs and sends no L1 transaction and reads no receipt.
C10_ModesAreSeparate ==
    /\ command = "Contract" =>
          /\ TablesUntouched
          /\ ~StorageRevertStarted
          /\ PRINT_STORAGE \notin printed
          /\ (pc = "exit" /\ exit_code = "ok") =>
                /\ receipt.status = RECEIPT_SUCCESS
                /\ l1_tx.status = "success"
    /\ command = "Storage" =>
          /\ l1_tx = NoTx
          /\ signed_tx = NoSignedTx
          /\ ~receipt_read
          /\ receipt = NoReceipt
          /\ PRINT_CONTRACT \notin printed

C10_Witness ==
    /\ command = "Contract"
    /\ pc = "exit"
    /\ exit_code = "ok"
    /\ \E b \in storage0.tables["blocks"] : b > last_correct_block

\* All sixteen schema calls of revert_blocks_in_storage applied in order.
RECURSIVE RevertStepsUpTo(_, _, _)
RevertStepsUpTo(i, tx, n) ==
    IF i = 0 THEN tx ELSE RevertStep(i, RevertStepsUpTo(i - 1, tx, n), n)

\* C11: the storage revert is one database transaction. Until its commit
\* succeeds every committed table holds the rows it had when the tool
\* started, whichever step failed (the error drops the transaction); once
\* the commit succeeded the committed tables are those produced by all
\* sixteen steps together. No state shows a part of the deletions.
C11_StorageRevertIsAtomic ==
    /\ PRINT_STORAGE \notin printed => storage.tables = storage0.tables
    /\ PRINT_STORAGE \in printed =>
          /\ storage.tables =
                RevertStepsUpTo(RevertSteps,
                                [open |-> TRUE, tables |-> storage0.tables,
                                 nonce |-> 0], last_block).tables
          /\ transaction = NoTransaction
    /\ (pc = "exit" /\ err = MSG_DB) => transaction = NoTransaction

\* A step failed after earlier steps had deleted rows in the transaction.
C11_Witness ==
    /\ pc = "exit"
    /\ err = MSG_DB
    /\ step > 3
    /\ step <= RevertSteps
    /\ \E b \in storage0.tables["blocks"] : b > last_correct_block
    /\ storage.tables = storage0.tables

\* --------------------------------------------- claims: data restore driver

\* The tree cache holds a row for the block the tree is at.
CacheRowForTree ==
    \E t \in database.tree_cache : t.block_number = tree_state.block_number

\* C12 as stated: at the end of every iteration of the loop of
\* run_state_update, with or without new block events or ops blocks, the
\* stored checkpoint is None and the tree cache has a row for the tree's
\* block number.
C12_EveryIterationEndsAtNone ==
    driver_pc = "end_iteration" =>
        /\ database.storage_state = "None"
        /\ CacheRowForTree

\* C12 amended: an iteration that applied at least one ops block ends (at
\* the end of the loop body or at the exit of the loop) with the stored
\* checkpoint None and a tree cache row for the tree's block number; an
\* iteration that found no block events or decoded no ops blocks ends with
\* the stored checkpoint Events, written by save_events_state, and writes
\* neither tree state nor tree cache.
C12_AppliedIterationEndsAtNone ==
    driver_pc \in {"end_iteration", "finished", PANIC_FINAL_HASH} =>
        IF \E i \in 1 .. Len(writes) : writes[i] = "update_tree_state"
        THEN /\ database.storage_state = "None"
             /\ CacheRowForTree
        ELSE /\ driver_pc = "end_iteration"
             /\ database.storage_state = "Events"
             /\ new_ops_blocks = << >>
             /\ writes \in { << "save_events_state" >>,
                              << "save_events_state", "save_rollup_ops" >> }

C12_Witness ==
    /\ driver_pc = "end_iteration"
    /\ new_ops_blocks # << >>
    /\ database.storage_state = "None"
    /\ CacheRowForTree
    /\ tree_state.block_number = 2

\* C13: every ops block applied to the tree has the number that follows the
\* tree's block number, whatever the events state holds: the blocks the
\* tree was built from are 1, 2, ... up to its block number, none skipped.
C13_NoBlockSkipped ==
    /\ Len(tree_state.applied) = tree_state.block_number
    /\ \A i \in 1 .. Len(tree_state.applied) : tree_state.applied[i] = i

\* C14: a block event at or below the tree's block number, or at or below
\* an event already taken in the same scan, is skipped without effect. The
\* ops blocks handed to update_tree_state have strictly increasing numbers,
\* all above the tree's block number; no scan ends in "Block not found";
\* and no block occurs twice among the blocks a tree was built from,
\* whatever duplicates the events state holds.
C14_DuplicateEventsAreSkipped ==
    /\ driver_pc = "update_tree_state" =>
          /\ \A i \in 1 .. Len(new_ops_blocks) :
                new_ops_blocks[i].block_num > tree_state.block_number
          /\ \A i \in 1 .. Len(new_ops_blocks) - 1 :
                new_ops_blocks[i].block_num < new_ops_blocks[i + 1].block_num
    /\ driver_pc # PANIC_NOT_FOUND
    /\ \A i \in 1 .. Len(tree_state.applied) - 1 :
          tree_state.applied[i] < tree_state.applied[i + 1]

\* A scan over an events state that holds block 1 twice, made on a tree
\* that is at block 0, took block 1 once.
C14_Witness ==
    /\ driver_pc = "update_tree_state"
    /\ Len(events_state) = 2
    /\ events_state[1].block_num = 1
    /\ events_state[2].block_num = 1
    /\ tree_state.block_number = 0
    /\ Len(new_ops_blocks) = 1

\* The ops blocks the next step of the driver is about to apply.
BlocksToApply ==
    CASE driver_pc = "replay_events" ->
             get_new_operation_blocks_from_events(events_state,
                                                  tree_state).blocks
      [] driver_pc = "replay_operations" ->
             get_ops_blocks_from_storage(db_transaction.db)
      [] driver_pc = "update_tree_state" -> new_ops_blocks
      [] OTHER -> << >>

\* C15: whenever the driver is about to apply ops blocks, in the loop of
\* run_state_update or in the replay of load_state_from_storage, the serial
\* id it passes to the tree is the one left by the blocks applied so far,
\* which after a restart is the maximum stored in the database.
C15_SerialIdContinuesStored ==
    BlocksToApply # << >> =>
        last_priority_op_serial_id =
            get_max_priority_op_serial_id(database)

\* The replay of load_state_from_storage ended in the panic of the tree.
ReplayPanicked ==
    /\ driver_pc = PANIC_TREE
    /\ \A i \in 1 .. Len(writes) : writes[i] # "save_events_state"

\* The restart after the last termination has replayed the checkpoint and
\* holds the tree it goes on with.
RestartReplayed ==
    /\ crashes > 0
    /\ driver_pc \in {"load_finish", "load_update_tree_cache"}

\* C16: when the process is terminated after save_events_state completed
\* and before the ops blocks were saved, and the run would otherwise have
\* completed its iteration, the restart through load_state_from_storage
\* does not fail in the tree and ends its replay with the block number and
\* root hash the uninterrupted run would have reached.
C16_RestartFromEventsConverges ==
    (before_crash.at = "update_operations_state" /\ before_crash.ok) =>
        /\ ~ReplayPanicked
        /\ RestartReplayed =>
              /\ tree_state.block_number = before_crash.tree.block_number
              /\ root_hash(tree_state) = root_hash(before_crash.tree)

\* Positions of run_state_update other than the one between the save of
\* the events and the save of the ops.
OtherPositions ==
    { "update_tree_state", "update_eth_state", "update_tree_cache", "commit",
      "end_iteration", "update_events_state" }

\* C17: when the process is terminated at any other position of the loop
\* (after the ops were saved, while tree state, counters and cache are
\* written, or between two iterations) the restart does not fail in the
\* tree and ends its replay with the tree of the uninterrupted run: every
\* block applied once, none skipped.
C17_RestartFromElsewhereConverges ==
    (before_crash.at \in OtherPositions /\ before_crash.ok) =>
        /\ ~ReplayPanicked
        /\ RestartReplayed => tree_state = before_crash.tree

\* Stage of a storage call within an iteration.
Stage(call) ==
    CASE call = "save_events_state" -> 1
      [] call = "save_rollup_ops" -> 2
      [] call = "update_tree_state" -> 3
      [] call = "update_eth_state" -> 4
      [] call = "update_tree_cache" -> 5

\* Positions at which `writes` holds the calls of the current iteration.
InIteration ==
    { "update_operations_state", "update_tree_state", "update_eth_state",
      "update_tree_cache", "commit", "end_iteration", "finished",
      PANIC_FINAL_HASH }

\* C18: the storage calls of one iteration are made in the order events
\* state, ops blocks, tree state of each block, L1 counters, tree cache:
\* each call belongs to the stage of the previous call or to the next one,
\* beginning with save_events_state. The stored checkpoint is Events from
\* the save of the events until the commit, Operations inside the
\* transaction once a block is stored, and None after the tree cache.
C18_StagesInOrder ==
    driver_pc \in InIteration =>
        /\ writes # << >>
        /\ writes[1] = "save_events_state"
        /\ \A i \in 1 .. Len(writes) - 1 :
              \/ Stage(writes[i + 1]) = Stage(writes[i]) + 1
              \/ /\ writes[i + 1] = "update_tree_state"
                 /\ writes[i] = "update_tree_state"
        /\ db_transaction # NoTransaction =>
              /\ database.storage_state = "Events"
              /\ db_transaction.db.storage_state =
                    IF writes[Len(writes)] = "update_tree_cache"
                    THEN "None" ELSE "Operations"
        /\ db_transaction = NoTransaction =>
              database.storage_state =
                  IF writes[Len(writes)] = "update_tree_cache"
                  THEN "None" ELSE "Events"

\* An iteration that stored two blocks reached its end.
C18_Witness ==
    /\ driver_pc = "end_iteration"
    /\ writes = << "save_events_state", "save_rollup_ops",
                   "update_tree_state", "update_tree_state",
                   "update_eth_state", "update_tree_cache" >>
    /\ database.storage_state = "None"

\* C19 as stated: all writes of an iteration are made in one transaction,
\* so the committed database never shows a part of an iteration: it never
\* holds a stored event of a block above the blocks of the stored tree.
C19_IterationIsOneTransaction ==
    \A i \in 1 .. Len(database.events) :
        database.events[i].block_num <= Max(database.blocks \cup {0})

\* C19 amended: an iteration writes in three steps that commit separately.
\* The events state (with checkpoint Events) and then the ops blocks are
\* written on the interactor outside any transaction and are visible at
\* once; tree state, L1 counters and tree cache are written in one
\* transaction and become visible together at its commit: before it the
\* committed database has checkpoint Events, the events and ops of the
\* iteration and no tree cache row for the new tree; after it the blocks of
\* the batch, the counters, the cache row and checkpoint None.
C19_TreeBatchIsOneTransaction ==
    /\ driver_pc \in {"update_operations_state", "update_tree_state"} =>
          /\ db_transaction = NoTransaction
          /\ database.storage_state = "Events"
          /\ database.events = events_state
    /\ driver_pc \in {"update_eth_state", "update_tree_cache", "commit"} =>
          /\ db_transaction # NoTransaction
          /\ database.storage_state = "Events"
          /\ database.events = events_state
          /\ database.rollup_ops = new_ops_blocks
          /\ ~CacheRowForTree
    /\ (driver_pc \in {"end_iteration", "finished", PANIC_FINAL_HASH}
          /\ new_ops_blocks # << >>) =>
          /\ db_transaction = NoTransaction
          /\ database.storage_state = "None"
          /\ CacheRowForTree
          /\ \A i \in 1 .. Len(new_ops_blocks) :
                new_ops_blocks[i].block_num \in database.blocks
          /\ database.eth_state = Max(database.blocks \cup {0})

\* Inside the transaction of a batch of two blocks, after the tree cache
\* was written to it.
C19_Witness ==
    /\ driver_pc = "commit"
    /\ Len(new_ops_blocks) = 2
    /\ db_transaction.db.storage_state = "None"
    /\ database.storage_state = "Events"

\* The loop of run_state_update was left: by `break` or by the panic of
\* the final hash.
LoopLeft == driver_pc \in {"finished", PANIC_FINAL_HASH}

\* Where and when the loop is left, and that it is not left otherwise.
ExitsWhenAllVerified ==
    /\ LoopLeft =>
          /\ finite_mode
          /\ tree_state.block_number = total_verified_blocks
          /\ new_ops_blocks # << >>
          /\ database.storage_state = "None"
          /\ CacheRowForTree
    /\ (driver_pc = "end_iteration" /\ finite_mode
          /\ new_ops_blocks # << >>) =>
          tree_state.block_number # total_verified_blocks
    /\ ~finite_mode => driver_pc \notin {"finished", "finished_on_load",
                                          PANIC_FINAL_HASH}

\* C20 as stated: in finite mode the loop is left exactly when, after a
\* committed batch, the tree's block number is the number of verified
\* blocks; with a final hash configured it is left normally only if the
\* root hash of the tree at that moment is the final hash, and by the panic
\* otherwise; in non-finite mode it is never left.
C20_ExitOnlyAtFinalHash ==
    /\ ExitsWhenAllVerified
    /\ (driver_pc = "finished" /\ final_hash # NoHash) =>
          root_hash(tree_state) = final_hash
    /\ driver_pc = PANIC_FINAL_HASH =>
          (final_hash # NoHash /\ root_hash(tree_state) # final_hash)

\* C20 amended: as stated, except that with a final hash configured the
\* loop is left normally when the root hash of the tree was the final hash
\* after some batch committed by this run of the loop, the last one or an
\* earlier one, and by the panic when it was so after none of them.
C20_ExitAfterFinalHashWasMet ==
    /\ ExitsWhenAllVerified
    /\ (driver_pc = "finished" /\ final_hash # NoHash) =>
          /\ final_hash_was_found
          /\ \E t \in database.tree_cache : root_hash(t) = final_hash
    /\ driver_pc = PANIC_FINAL_HASH =>
          /\ final_hash # NoHash
          /\ ~final_hash_was_found
          /\ root_hash(tree_state) # final_hash
          /\ crashes = 0 =>
                \A t \in database.tree_cache : root_hash(t) # final_hash

\* The loop was left normally at block 2 with the final hash of block 1.
C20_Witness ==
    /\ driver_pc = "finished"
    /\ final_hash = ChainRoot(1)
    /\ tree_state.block_number = 2
    /\ total_verified_blocks = 2

\* The events state, the special token and the genesis account updates of
\* set_genesis_state are all in the committed database.
GenesisPersisted ==
    /\ database.events = << >>
    /\ database.last_watched_eth_block = genesis_eth_block_number
    /\ Cardinality(database.tokens) = 1
    /\ \A t \in database.tokens :
          t.id = NFT_TOKEN_ID /\ t.symbol = "SPECIAL" /\ t.decimals = 18
    /\ Len(database.account_updates) = 3
    /\ database.account_updates[1] =
          << 0, [update |-> "Create",
                 address |-> genesis_fee_account.address,
                 nonce |-> genesis_fee_account.nonce] >>
    /\ database.account_updates[2][1] = NFT_STORAGE_ACCOUNT_ID
    /\ database.account_updates[2][2].update = "Create"
    /\ database.account_updates[3][1] = NFT_STORAGE_ACCOUNT_ID
    /\ database.account_updates[3][2].balance_update =
          << NFT_TOKEN_ID, 0, MIN_NFT_TOKEN_ID >>

\* C21: after set_genesis_state the account map of the tree holds exactly
\* the fee account at id 0, with the configured address, and the NFT custody
\* account at NFT_STORAGE_ACCOUNT_ID, whose balance of NFT_TOKEN_ID is
\* MIN_NFT_TOKEN_ID; the tree is at block 0; the special token, the events
\* state (no events, genesis L1 block) and the genesis account updates are
\* in the database, and at every moment the database holds all of them or
\* none.
C21_GenesisState ==
    /\ database = EmptyDatabase \/ GenesisPersisted
    /\ driver_pc = "genesis_done" =>
          /\ GenesisPersisted
          /\ DOMAIN tree_accounts = {0, NFT_STORAGE_ACCOUNT_ID}
          /\ tree_accounts[0].address = genesis_fee_account.address
          /\ tree_accounts[0] = genesis_fee_account
          /\ tree_accounts[NFT_STORAGE_ACCOUNT_ID].balances[NFT_TOKEN_ID] =
                MIN_NFT_TOKEN_ID
          /\ tree_state.block_number = 0

\* set_genesis_state has returned for the fee account address 1 and a
\* genesis transaction mined after L1 block 0.
C21_Witness ==
    /\ driver_pc = "genesis_done"
    /\ genesis_fee_account.address = 1
    /\ genesis_eth_block_number > 0
    /\ database # EmptyDatabase

\* C22: an RPC error of the event scan ends only the iteration: whatever
\* the scan returns, the driver is afterwards at a position of its loop (it
\* has not terminated), and a scan that saved no events state leaves the
\* database, checkpoint included, as it was.
C22_ScanErrorEndsOnlyIteration ==
    [][driver_pc = "update_events_state" =>
          /\ driver_pc' \in Running
          /\ writes' # << "save_events_state" >> => database' = database]_vars

\* The ops blocks the driver is about to apply to the tree.
Batch ==
    CASE driver_pc = "update_tree_state" -> new_ops_blocks
      [] driver_pc = "replay_operations" ->
             get_ops_blocks_from_storage(db_transaction.db)
      [] driver_pc = "replay_events" ->
             get_new_operation_blocks_from_events(events_state,
                                                  tree_state).blocks
      [] OTHER -> << >>

\* Applying the batch to the tree fails at one of its blocks.
BatchFails ==
    ~ApplyOpsBlocks(tree_state, last_priority_op_serial_id, Batch, 1).ok

\* C23: when applying a block of the batch to the tree fails, the driver
\* does not go on and nothing of the batch is written: the database is as
\* before, no transaction is left open that could still be committed, and
\* the tree cache is not written.
C23_FailedBatchWritesNothing ==
    [][BatchFails =>
          /\ driver_pc' \in Panics \cup {"load_state_from_storage"}
          /\ database' = database
          /\ db_transaction' = NoTransaction
          /\ \A i \in 1 .. Len(writes') :
                writes'[i] \notin {"update_tree_state", "update_tree_cache"}]_vars

\* The batch decoded in an iteration of the loop failed on the tree and the
\* driver has panicked, block 1 being stored by an earlier batch.
C23_Witness ==
    /\ driver_pc = PANIC_TREE
    /\ new_ops_blocks # << >>
    /\ writes = << "save_events_state", "save_rollup_ops" >>
    /\ database.rollup_ops = new_ops_blocks
    /\ database.blocks = {1}

\* C24: get_last_quote for a token that resolves to the symbol RDOC returns
\* the price 1 and reads neither the price cache nor the stored prices,
\* whatever they hold.
C24_RdocQuoteIsOne ==
    (ticker_pc = "returned" /\ token.symbol = "RDOC") =>
        /\ quote.ok
        /\ quote.usd_price = 1
        /\ consulted = {}

\* RDOC was asked for by its address while the price cache and the stored
\* prices hold other prices for it, and the call has returned.
C24_Witness ==
    /\ ticker_pc = "returned"
    /\ token_request = [kind |-> "Address", value |-> 1]
    /\ token.symbol = "RDOC"
    /\ price_cache[1] = 2
    /\ historical_price[1] = 0

\* C25: for a token other than RDOC a cached price is returned and nothing
\* else is read; without a cached price the stored historical price is
\* returned and is in the price cache afterwards; with neither the call
\* fails with "No price stored in database".
C25_CacheThenHistoricalThenCached ==
    [][(ticker_pc \in {"get_stored_value", "get_historical_ticker_price"}
        /\ ticker_pc' = "returned") =>
          IF price_cache[token.id] # NoPrice
          THEN /\ quote' = [ok |-> TRUE, usd_price |-> price_cache[token.id]]
               /\ consulted' = {"price_cache"}
          ELSE IF historical_price[token.id] # NoPrice /\ quote'.ok
          THEN /\ quote'.usd_price = historical_price[token.id]
               /\ price_cache'[token.id] = historical_price[token.id]
          ELSE /\ ~quote'.ok
               /\ quote'.error = "No price stored in database"]_vars

\* C26: is_rbtc is true exactly for the id 0, for the zero address and for
\* a symbol of four characters that are r, b, t, c in this order, each in
\* either case; it is false for every other descriptor.
C26_IsRbtcExactly ==
    token_pc = "returned" =>
        (is_rbtc_result <=>
            \/ token_like.kind = "Id" /\ token_like.value = 0
            \/ token_like.kind = "Address" /\ token_like.value = ZERO_ADDRESS
            \/ /\ token_like.kind = "Symbol"
               /\ Len(token_like.value) = 4
               /\ token_like.value[1] \in {"r", "R"}
               /\ token_like.value[2] \in {"b", "B"}
               /\ token_like.value[3] \in {"t", "T"}
               /\ token_like.value[4] \in {"c", "C"})

\* is_rbtc has returned true for a symbol of mixed case.
C26_Witness ==
    /\ token_pc = "returned"
    /\ token_like = [kind |-> "Symbol", value |-> << "R", "b", "T", "c" >>]
    /\ is_rbtc_result

\* Block numbers of a sequence of ops blocks.
BlockNums(ops_blocks) ==
    [i \in 1 .. Len(ops_blocks) |-> ops_blocks[i].block_num]

\* C27: load_state_from_storage chooses what to replay by the stored
\* checkpoint alone. Events: the ops blocks are decoded from the stored
\* events, saved and applied. Operations: the stored ops blocks are applied,
\* nothing is decoded or saved. None: nothing is applied and the tree is the
\* one restored from the cache or the snapshot.
C27_ReplayPathByCheckpoint ==
    [][/\ (driver_pc = "load_state_from_storage" /\ driver_pc' # driver_pc) =>
            /\ database.storage_state = "Events" =>
                   driver_pc' = "replay_events"
            /\ database.storage_state = "Operations" =>
                   driver_pc' = "replay_operations"
            /\ database.storage_state = "None" =>
                   /\ driver_pc' = "load_finish"
                   /\ writes' = << >>
                   /\ tree_state' = IF database.tree_cache # {}
                                    THEN get_cached_tree_state(database)
                                    ELSE get_tree_state(database)
       /\ (driver_pc = "replay_events" /\ driver_pc' = "load_finish") =>
            /\ database.storage_state = "Events"
            /\ new_ops_blocks' =
                   get_new_operation_blocks_from_events(database.events,
                                                        tree_state).blocks
            /\ db_transaction'.db.rollup_ops = new_ops_blocks'
            /\ writes' = << "save_rollup_ops" >> \o
                             BlockWrites(new_ops_blocks')
            /\ tree_state'.applied =
                   tree_state.applied \o BlockNums(new_ops_blocks')
       /\ (driver_pc = "replay_operations" /\ driver_pc' = "load_finish") =>
            /\ database.storage_state = "Operations"
            /\ new_ops_blocks' = database.rollup_ops
            /\ db_transaction'.db.rollup_ops = database.rollup_ops
            /\ writes' = BlockWrites(new_ops_blocks')
            /\ tree_state'.applied =
                   tree_state.applied \o BlockNums(new_ops_blocks')
       /\ (driver_pc = "load_finish" /\
           driver_pc' \notin {"load_finish", "load_state_from_storage"}) =>
            tree_state' = tree_state
      ]_vars

\* A restart replayed stored ops blocks on checkpoint Operations, and a load
\* is at its end.
C27_Witness ==
    /\ driver_pc = "load_finish"
    /\ database.storage_state = "Operations"
    /\ new_ops_blocks # << >>
    /\ new_ops_blocks = database.rollup_ops
    /\ tree_state.block_number = new_ops_blocks[Len(new_ops_blocks)].block_num

\* C28: load_state_from_storage returns true exactly when the driver is in
\* finite mode and the block number of the tree after the replay equals the
\* total number of verified blocks; in non-finite mode it returns false.
C28_FinishedOnLoadIff ==
    [][(/\ driver_pc \in {"load_finish", "load_update_tree_cache"}
        /\ driver_pc' \in {"finished_on_load", "update_events_state"}) =>
           /\ tree_state' = tree_state
           /\ driver_pc' = "finished_on_load" <=>
                  (finite_mode /\
                   tree_state.block_number = total_verified_blocks)
           /\ ~finite_mode => driver_pc' = "update_events_state"
      ]_vars

\* A restarted driver in finite mode found the tree at the last verified
\* block and returned finished from the load.
C28_Witness ==
    /\ driver_pc = "finished_on_load"
    /\ finite_mode
    /\ crashes > 0
    /\ tree_state.block_number = total_verified_blocks

ScanReturns ==
    /\ driver_pc \in {"update_operations_state", "replay_events"}
    /\ driver_pc' \in {"update_tree_state", "end_iteration", "load_finish"}

\* The events of the scan above the block of the tree.
NewEvents ==
    SelectSeq(events_state, LAMBDA e : e.block_num > tree_state.block_number)

\* Every event of the scan above the tree gives its block exactly once, in
\* ascending order, and each commit transaction is fetched once.
ScanOncePerTransaction ==
    LET scan == get_new_operation_blocks_from_events(events_state, tree_state)
    IN  /\ BlockNums(new_ops_blocks') =
               Ascending({NewEvents[i].block_num : i \in DOMAIN NewEvents})
        /\ scan.blocks = new_ops_blocks'
        /\ scan.fetched =
               Ascending({NewEvents[i].transaction_hash :
                             i \in DOMAIN NewEvents})

\* C30 as stated: a commit transaction is fetched once per run of events
\* with its hash, and every rollup block of a fetched transaction is among
\* the returned ops blocks, once and in ascending order.
C30_EveryBlockOfTransactionReturned ==
    [][ScanReturns =>
          /\ ScanOncePerTransaction
          /\ \A n \in ChainBlocks :
                 (\E i \in DOMAIN NewEvents :
                     NewEvents[i].transaction_hash = TxHash(n)) =>
                 \E j \in DOMAIN new_ops_blocks' :
                     new_ops_blocks'[j].block_num = n
      ]_vars

\* C30: a commit transaction is fetched and decoded once per run of scanned
\* events with its hash, and the block of every scanned event above the
\* tree is returned exactly once, in ascending order of block_num; a block
\* of the transaction that has no such event is not returned.
C30_EveryEventBlockReturnedOnce ==
    [][ScanReturns => ScanOncePerTransaction]_vars

\* The scan of the events of blocks 1 and 2, committed by one transaction,
\* has returned both ops blocks from one fetch.
C30_Witness ==
    /\ driver_pc = "update_tree_state"
    /\ BlockNums(events_state) = << 1, 2 >>
    /\ BlockNums(new_ops_blocks) = << 1, 2 >>
    /\ get_new_operation_blocks_from_events(events_state,
                                            tree_state).fetched = << 1 >>

\* Serial ids of the priority operations of the blocks stored in d.
StoredSerialIds(d) == UNION {SerialIdsIn(n) : n \in d.blocks}

\* C31: after update_tree_state the events state keeps exactly the
\* priority-op logs whose serial id belongs to no stored block; the logs of
\* stored blocks are dropped, and a kept log stays in the events state, to
\* be offered at the next tree update.
C31_UnmatchedLogsAreKept ==
    [][/\ (driver_pc = "update_tree_state" /\
           driver_pc' = "update_eth_state") =>
            /\ priority_op_data' =
                   priority_op_data \ StoredSerialIds(db_transaction'.db)
            /\ priority_op_data' =
                   apply_priority_op_data(db_transaction'.db,
                                          priority_op_data)
       /\ (driver_pc \in Running \ {"update_tree_state"} /\
           driver_pc' \in Running \ {"load_state_from_storage"}) =>
            priority_op_data \subseteq priority_op_data'
      ]_vars

\* A tree update stored block 1, dropped the log of its priority operation
\* and kept the log of a priority operation of a later block.
C31_Witness ==
    /\ driver_pc = "update_eth_state"
    /\ priority_requests = {0, 1}
    /\ db_transaction.db.blocks = {1}
    /\ priority_op_data = {1}

\* Root hash of the tree as it was after block k of the batch in
\* new_ops_blocks was applied, seen once the whole batch is applied.
RootAfterBlock(k) ==
    << "root",
       SubSeq(tree_state.applied, 1,
              Len(tree_state.applied) - Len(new_ops_blocks) + k) >>

\* C32: with a final hash configured the root of the tree is compared with
\* it after every applied block: when the final hash is the root after any
\* block of a committed batch, the last one or not, it has been recognised
\* once the batch is committed.
C32_FinalHashComparedAfterEveryBlock ==
    [][(/\ driver_pc = "commit"
        /\ driver_pc' \in {"end_iteration", "finished", PANIC_FINAL_HASH}
        /\ final_hash # NoHash
        /\ \E k \in 1 .. Len(new_ops_blocks) :
               RootAfterBlock(k) = final_hash) =>
           final_hash_was_found'
      ]_vars

\* C33: in finite mode, with the number of verified blocks unchanged and
\* scans that keep delivering the events of the blocks not yet applied, the
\* driver does not run forever: it finishes with the tree at the last
\* verified block, unless a panic ended it before; and it never goes on to
\* another scan with the tree at the last verified block.
C33_FiniteModeTerminates ==
    /\ finite_mode ~>
           \/ /\ driver_pc \in {"finished", "finished_on_load"}
              /\ tree_state.block_number = total_verified_blocks
           \/ driver_pc \in Panics
    /\ [](finite_mode /\
           driver_pc \in {"end_iteration", "update_events_state",
                          "update_operations_state", "update_tree_state"} =>
              tree_state.block_number # total_verified_blocks)

\* run_state_update has returned in finite mode with the tree at the last
\* verified block, after more than one batch.
C33_Witness ==
    /\ driver_pc = "finished"
    /\ finite_mode
    /\ total_verified_blocks = MaxBlock
    /\ tree_state.block_number = total_verified_blocks
    /\ Cardinality(database.tree_cache) > 2

\* Block i of the batch has a contract version and a number of chunks that
\* its own version admits.
AdmissibleByOwnVersion(i) ==
    /\ new_ops_blocks[i].contract_version # NoVersion
    /\ new_ops_blocks[i].contract_version = 3 =>
           new_ops_blocks[i].chunks \in {1, 2}
    /\ new_ops_blocks[i].contract_version = 4 =>
           new_ops_blocks[i].chunks = 1

\* C34: update_tree_state applies every ops block with the chunk sizes of
\* the contract version of that block: the batch is applied only when every
\* block is admissible under its own version, and a block that is not makes
\* the driver panic. A block without contract version makes the driver panic
\* as well, and no block of a batch that panicked is stored.
C34_ChunkSizesOfOwnVersion ==
    [][driver_pc = "update_tree_state" =>
          /\ driver_pc' = "update_eth_state" =>
                 \A i \in DOMAIN new_ops_blocks : AdmissibleByOwnVersion(i)
          /\ (\E i \in DOMAIN new_ops_blocks : ~AdmissibleByOwnVersion(i)) =>
                 driver_pc' \in {PANIC_VERSION, PANIC_TREE}
          /\ driver_pc' = PANIC_VERSION =>
                 \E i \in DOMAIN new_ops_blocks :
                    /\ new_ops_blocks[i].contract_version = NoVersion
                    /\ \A j \in 1 .. i - 1 : AdmissibleByOwnVersion(j)
          /\ new_ops_blocks[1].contract_version = NoVersion =>
                 driver_pc' = PANIC_VERSION
          /\ driver_pc' \in {PANIC_VERSION, PANIC_TREE} =>
                 /\ database' = database
                 /\ db_transaction' = NoTransaction
                 /\ tree_state' = tree_state
                 /\ writes' = writes
      ]_vars

\* The second block of a batch had no contract version: the driver panicked
\* with the first block applied in memory only and nothing stored.
C34_Witness ==
    /\ driver_pc = PANIC_VERSION
    /\ Len(new_ops_blocks) = 2
    /\ new_ops_blocks[1].contract_version = 4
    /\ new_ops_blocks[2].contract_version = NoVersion
    /\ database.blocks = {}
    /\ \A i \in DOMAIN writes : writes[i] # "update_tree_state"

\* The events the scan takes: above the block of the tree and above every
\* event before them.
TakenEvents ==
    LET taken(i) ==
            /\ events_state[i].block_num > tree_state.block_number
            /\ \A j \in 1 .. i - 1 :
                   events_state[j].block_num < events_state[i].block_num
        RECURSIVE from(_)
        from(i) == IF i > Len(events_state) THEN << >>
                   ELSE IF taken(i) THEN << events_state[i] >> \o from(i + 1)
                   ELSE from(i + 1)
    IN  from(1)

\* The event names a block that the transaction with its hash committed.
InOwnTransaction(event) == TxHash(event.block_num) = event.transaction_hash

\* C35: when a taken event names a block that is not among the blocks of
\* its L1 transaction, the scan panics with "Block not found" (unless the
\* fetch failed before) and no ops block is returned or saved; when the scan
\* returns, the i-th ops block has the block number of the i-th taken event.
C35_BlockNotFoundAborts ==
    [][driver_pc = "update_operations_state" =>
          /\ (\E i \in DOMAIN TakenEvents :
                  ~InOwnTransaction(TakenEvents[i])) =>
                 /\ driver_pc' \in {PANIC_NOT_FOUND, PANIC_OPS}
                 /\ new_ops_blocks' = << >>
                 /\ database' = database
          /\ driver_pc' = PANIC_NOT_FOUND =>
                 \E i \in DOMAIN TakenEvents :
                    ~InOwnTransaction(TakenEvents[i])
          /\ driver_pc' \in {"update_tree_state", "end_iteration"} =>
                 /\ Len(new_ops_blocks') = Len(TakenEvents)
                 /\ \A i \in DOMAIN TakenEvents :
                        /\ new_ops_blocks'[i].block_num =
                               TakenEvents[i].block_num
                        /\ InOwnTransaction(TakenEvents[i])
      ]_vars

\* The scan took the event of block 1 and then an event of block 3 that
\* carries the hash of the transaction of blocks 1 and 2: it panicked and
\* returned nothing.
C35_Witness ==
    /\ driver_pc = PANIC_NOT_FOUND
    /\ BlockNums(events_state) = << 1, 3 >>
    /\ events_state[2].transaction_hash = TxHash(1)
    /\ new_ops_blocks = << >>
    /\ database.rollup_ops = << >>

\* C36: revert_blocks_on_contract fetches the operator nonce once it holds a
\* receipt and before it looks at the status of the receipt: the stored
\* nonce is one higher when the status is examined, whether the transaction
\* succeeded or failed, and it is the nonce of the start when signing,
\* sending or the receipt call failed or the wait timed out.
C36_NonceFetchedBeforeStatus ==
    /\ pc \in {"main", "get_blocks", "sign_prepared_tx", "send_raw_tx",
                "tx_receipt", "get_next_nonce"} =>
          storage.nonce = storage0.nonce
    /\ pc = "get_next_nonce" =>
          /\ receipt # NoReceipt
          /\ reason = NoReason
          /\ PRINT_CONTRACT \notin printed
    /\ pc = "check_status" =>
          /\ receipt # NoReceipt
          /\ storage.nonce = storage0.nonce + 1
    /\ (pc = "exit" /\ err \in {MSG_TX_FAILED, MSG_REASON_RPC}) =>
          /\ receipt.status # RECEIPT_SUCCESS
          /\ storage.nonce = storage0.nonce + 1
    /\ (pc = "exit" /\ command = "Contract" /\ exit_code = "ok") =>
          /\ receipt.status = RECEIPT_SUCCESS
          /\ storage.nonce = storage0.nonce + 1
    /\ (pc = "exit" /\
        err \in {MSG_SIGN, MSG_SEND, MSG_RECEIPT, MSG_TIMEOUT}) =>
          /\ receipt = NoReceipt
          /\ storage.nonce = storage0.nonce

\* The revertBlocks transaction failed on L1 and the run ended with the
\* reason, the stored nonce advanced.
C36_Witness ==
    /\ pc = "exit"
    /\ err = MSG_TX_FAILED
    /\ receipt.status # RECEIPT_SUCCESS
    /\ storage.nonce = storage0.nonce + 1

\* The blocks the run is to revert: (last_correct_block, last_committed_block].
BlocksToRevert ==
    {n \in BlockNumber :
        last_correct_block < n /\ n <= storage0.last_committed}

\* One of the blocks to revert has no row in the blocks table.
BlockMissing ==
    \E n \in BlocksToRevert : n \notin storage0.tables["blocks"]

\* revert_blocks_on_contract was entered.
OnContractStarted ==
    \/ pc \in {"sign_prepared_tx", "send_raw_tx", "tx_receipt",
               "get_next_nonce", "check_status"}
    \/ signed_tx # NoSignedTx

\* C37: in modes All and Contract every descriptor of a block of
\* (last_correct_block, last_committed_block] was read from storage by the
\* time revert_blocks_on_contract starts to build the transaction; when one
\* of these blocks is missing from storage, the run never leaves get_blocks
\* but by an abort, no L1 transaction is signed or sent and no storage row
\* (nor the stored nonce) is changed.
C37_MissingBlockAbortsBeforeAnything ==
    command \in {"All", "Contract"} =>
        /\ OnContractStarted =>
              /\ \A n \in BlocksToRevert :
                    \E i \in 1 .. Len(blocks) : blocks[i] = Block(n)
              /\ ~BlockMissing
        /\ BlockMissing =>
              /\ pc \in {"main", "get_blocks", "exit"}
              /\ pc = "exit" => exit_code \in {"error", "panic"}
              /\ l1_tx = NoTx
              /\ signed_tx = NoSignedTx
              /\ receipt = NoReceipt
              /\ storage = storage0
              /\ transaction = NoTransaction

C37_Witness ==
    /\ command \in {"All", "Contract"}
    /\ BlockMissing
    /\ Cardinality(BlocksToRevert) >= 2
    /\ pc = "exit"
    /\ exit_code = "panic"
    /\ err = MSG_NO_BLOCK

\* What holds of a round of keep_price_updated at every moment.
KeeperRound ==
    /\ keeper_pc \in {"get_all_tokens", "update_price", "sleep"}
    /\ keeper_pc = "update_price" =>
          listed = "Ok" /\ Len(updated) < Len(tokens)
    /\ (keeper_pc = "sleep" /\ listed = "Ok") =>
          /\ Len(updated) = Len(tokens)
          /\ {tokens[i] : i \in DOMAIN tokens} = StoredTokens
    /\ listed = "Err" => keeper_pc = "sleep" /\ updated = << >>
    /\ \A i \in DOMAIN updated :
          updated[i].api = "TokenNotFound" =>
             /\ updated[i].result # "ApiError"
             /\ updated[i].result = "Ok" =>
                   historical_price[tokens[i].id] = 0

\* C38: keep_price_updated has no final position and starts a new round
\* again and again, after a round whose get_all_tokens failed as after any
\* other; a round that listed the tokens calls update_price for every one
\* of them whatever the earlier calls returned; and a token the price API
\* reports as not found is not an error of update_price: the price 0 is
\* handed to update_stored_value and is the stored price once that write
\* succeeded.
C38_KeepPriceUpdatedGoesOn ==
    /\ []KeeperRound
    /\ []<>(keeper_pc = "get_all_tokens")
    /\ (listed = "Err") ~> (keeper_pc = "get_all_tokens" /\ listed = "none")

C38_Witness ==
    /\ keeper_pc = "sleep"
    /\ listed = "Ok"
    /\ Len(updated) = 3
    /\ updated[1].result = "ApiError"
    /\ updated[2].api = "TokenNotFound"
    /\ updated[2].result = "Ok"
    /\ historical_price[tokens[2].id] = 0
    /\ updated[3].result = "Ok"

====
